---- MODULE Spec2Model ----
(***************************************************************************)
(* Lincoln historical-divergence pipeline: the document chunker, the      *)
(* keyword relevance filter, the judge statistics, the LLM retry loops,   *)
(* the parallel and the sequential extractor, the extraction run, the     *)
(* comparison pairs, the judge run, the self-consistency experiment and   *)
(* the LoC fetch loop.                                                     *)
(*                                                                         *)
(* Text is a sequence of one-character strings.  Ratios that Python holds *)
(* in floats are held exactly, as pairs <<numerator, denominator>>.       *)
(***************************************************************************)
EXTENDS Integers, Sequences, FiniteSets, TLC

VARIABLES
    \* DocumentChunker.chunk_document: one call
    text, document_id, chunk_size, overlap, chunks, chunker_pc,
    \* DocumentChunker.find_relevant_chunks: one call
    in_chunks, event_keywords, relevant, filter_pc,
    \* llm_judge/statistics.py: one call of one of its functions
    stat_fn, stat_args, stat_ret,
    \* extract_event_info / compare_accounts: the retry loop of one call
    caller, client, attempt, retry_pc, api_calls, sleeps, errors, ret,
    \* extract_from_document_parallel: one call, its executor and its futures
    max_workers, total_chunks, batch_start, pool_pc, futures, work_queue,
    idle_semaphore, threads, completed, chunk_results, pauses, pool_ret,
    \* event_extraction/main.py: one run of main and the output file on disk
    gutenberg_data, loc_data, extractor_client, output_file, existing,
    all_extractions, processed_pairs, event_idx, phase, doc_idx, main_pc,
    extractions, extract_calls,
    \* ExtractionComparator.create_comparison_pairs: one call
    self_extractions, pairs, comparator_pc,
    \* experiment_2_self_consistency: one call
    sample_pairs, num_runs, pair_idx, all_pair_results, experiment_pc,
    experiment_results,
    \* DocumentChunker.combine_chunks: one call
    chunks_to_combine, max_length, combined, combine_pc,
    \* LoCScraperImproved._fetch_with_retry: one call
    url_is_item, fetch_attempt, fetch_pc, gets, fetch_sleeps, cookies_cleared,
    fetch_ret,
    \* llm_judge/main.py: one run of main and its two output files
    judge_pairs, judge_client, judge_idx, all_results, failed_count, judged,
    results_file, stats_file, judge_pc,
    \* ValidationJudge.compare_accounts: the retry loop of one call
    validation_attempt, validation_pc, validation_api_calls, validation_sleeps,
    validation_ret,
    \* extract_from_document: one call, on the chunks of the parallel call
    sequential_pc, sequential_ret

chunkerVars == <<text, document_id, chunk_size, overlap, chunks, chunker_pc>>
filterVars == <<in_chunks, event_keywords, relevant, filter_pc>>
statVars == <<stat_fn, stat_args, stat_ret>>
retryVars == <<caller, client, attempt, retry_pc, api_calls, sleeps, errors, ret>>
poolVars == <<max_workers, total_chunks, batch_start, pool_pc, futures, work_queue,
              idle_semaphore, threads, completed, chunk_results, pauses, pool_ret>>
mainVars == <<gutenberg_data, loc_data, extractor_client, output_file, existing,
              all_extractions, processed_pairs, event_idx, phase, doc_idx, main_pc,
              extractions, extract_calls>>
comparatorVars == <<self_extractions, pairs, comparator_pc>>
experimentVars == <<sample_pairs, num_runs, pair_idx, all_pair_results, experiment_pc,
                    experiment_results>>
combineVars == <<chunks_to_combine, max_length, combined, combine_pc>>
\* the calls modelled in the later sections of the module
fetchVars == <<url_is_item, fetch_attempt, fetch_pc, gets, fetch_sleeps, cookies_cleared,
               fetch_ret>>
judgeVars == <<judge_pairs, judge_client, judge_idx, all_results, failed_count, judged,
               results_file, stats_file, judge_pc>>
validationVars == <<validation_attempt, validation_pc, validation_api_calls,
                    validation_sleeps, validation_ret>>
sequentialVars == <<sequential_pc, sequential_ret>>
otherVars == <<combineVars, fetchVars, judgeVars, validationVars, sequentialVars>>
vars == <<chunkerVars, filterVars, statVars, retryVars, poolVars, mainVars,
          comparatorVars, experimentVars, otherVars>>

(***************************************************************************)
(* Bounds of the model.                                                    *)
(***************************************************************************)
MaxTextLen == 7
MaxChunkSize == 3
MaxOverlap == 2

(***************************************************************************)
(* Characters and Python's str helpers.                                    *)
(***************************************************************************)
NL == "\n"
SP == " "
Whitespace == {NL, SP}
Letters == {"a", "b"}
Chars == Letters \cup Whitespace

IsSpace(c) == c \in Whitespace

Max(a, b) == IF a > b THEN a ELSE b

\* s[i:] with 1-based i
From(s, i) == SubSeq(s, i, Len(s))

NonSpaceAt(s) == {i \in 1..Len(s) : ~IsSpace(s[i])}

SetMin(S) == CHOOSE x \in S : \A y \in S : x <= y
SetMax(S) == CHOOSE x \in S : \A y \in S : x >= y

\* str.strip()
Strip(s) ==
    IF NonSpaceAt(s) = {} THEN <<>>
    ELSE SubSeq(s, SetMin(NonSpaceAt(s)), SetMax(NonSpaceAt(s)))

\* str.lstrip()
LStrip(s) ==
    IF NonSpaceAt(s) = {} THEN <<>>
    ELSE From(s, SetMin(NonSpaceAt(s)))

\* s[-k:] for k >= 0: Python reads -0 as 0, so s[-0:] is the whole of s
NegSlice(s, k) ==
    IF k = 0 THEN s
    ELSE IF k >= Len(s) THEN s
    ELSE From(s, Len(s) - k + 1)

\* The ends k of the matches of \n\s*\n that begin at i: s[i] and s[k] are
\* newlines and only whitespace lies between them.
MatchEnds(s, i) ==
    IF s[i] # NL THEN {}
    ELSE {k \in (i + 1)..Len(s) :
            /\ s[k] = NL
            /\ \A j \in (i + 1)..(k - 1) : IsSpace(s[j])}

RECURSIVE SplitFrom(_, _, _)
\* re.split scanning at i, the current piece having begun at start; \s* is
\* greedy, so a match runs to the last newline of the whitespace run.
SplitFrom(s, i, start) ==
    IF i > Len(s) THEN <<SubSeq(s, start, Len(s))>>
    ELSE IF MatchEnds(s, i) # {}
        THEN LET k == SetMax(MatchEnds(s, i))
             IN  <<SubSeq(s, start, i - 1)>> \o SplitFrom(s, k + 1, k + 1)
        ELSE SplitFrom(s, i + 1, start)

\* re.split(r'\n\s*\n', text)
SplitParagraphs(s) == SplitFrom(s, 1, 1)

(***************************************************************************)
(* DocumentChunker.chunk_document                                          *)
(***************************************************************************)
\* f"{document_id}_chunk_{chunk_index}"
ChunkId(doc, idx) == <<doc, "_chunk_", idx>>

\* the dictionary of a chunk
Chunk(doc, idx, txt, start, end) ==
    [chunk_id |-> ChunkId(doc, idx), text |-> txt, start_char |-> start,
     end_char |-> end, chunk_index |-> idx]

\* mutant: the early return strips the text it returns
SingleChunkStripped(t, doc) == <<Chunk(doc, 0, Strip(t), 0, Len(t))>>

\* the early return for an empty or short text
SingleChunk(t, doc) == <<Chunk(doc, 0, t, 0, Len(t))>>

\* overlap_text
OverlapText(current_chunk, ov) ==
    IF Len(current_chunk) > ov THEN NegSlice(current_chunk, ov) ELSE current_chunk

\* the loop's locals before the first paragraph
LoopStart == [chunks |-> <<>>, current_chunk |-> <<>>, chunk_start |-> 0, chunk_index |-> 0]

\* the chunk appended for the text collected so far
Emit(st, doc) ==
    Chunk(doc, st.chunk_index, Strip(st.current_chunk), st.chunk_start,
          st.chunk_start + Len(st.current_chunk))

\* mutant: the next chunk keeps the index of the chunk just saved
FlushKeepingIndex(st, para, doc, ov) ==
    LET overlap_text == OverlapText(st.current_chunk, ov)
        next_chunk == overlap_text \o <<NL, NL>> \o para
    IN  [chunks |-> Append(st.chunks, Emit(st, doc)),
         current_chunk |-> next_chunk,
         chunk_start |-> st.chunk_start + Len(next_chunk) - Len(overlap_text) - Len(para) - 2,
         chunk_index |-> st.chunk_index]

\* the branch that saves the current chunk and starts the next with overlap
Flush(st, para, doc, ov) ==
    LET overlap_text == OverlapText(st.current_chunk, ov)
        next_chunk == overlap_text \o <<NL, NL>> \o para
    IN  [chunks |-> Append(st.chunks, Emit(st, doc)),
         current_chunk |-> next_chunk,
         chunk_start |-> st.chunk_start + Len(next_chunk) - Len(overlap_text) - Len(para) - 2,
         chunk_index |-> st.chunk_index + 1]

\* the branch that adds the paragraph to the current chunk
Extend(st, para) ==
    [st EXCEPT !.current_chunk =
        IF st.current_chunk # <<>> THEN st.current_chunk \o <<NL, NL>> \o para ELSE para]

\* one iteration of the loop over the paragraphs
ParaStep(st, raw_para, doc, cs, ov) ==
    LET para == Strip(raw_para)
    IN  IF para = <<>> THEN st
        ELSE IF Len(st.current_chunk) + Len(para) > cs /\ st.current_chunk # <<>>
            THEN Flush(st, para, doc, ov)
            ELSE Extend(st, para)

RECURSIVE ParaLoop(_, _, _, _, _, _)
ParaLoop(st, paragraphs, i, doc, cs, ov) ==
    IF i > Len(paragraphs) THEN st
    ELSE ParaLoop(ParaStep(st, paragraphs[i], doc, cs, ov), paragraphs, i + 1, doc, cs, ov)

\* mutant: the chunk still being collected when the loop ends is forgotten
FinishWithoutLast(st, doc) == st.chunks

\* mutant: the final chunk is appended even when nothing but whitespace is left
FinishEvenIfBlank(st, doc) == Append(st.chunks, Emit(st, doc))

\* the final chunk
Finish(st, doc) ==
    IF Strip(st.current_chunk) # <<>> THEN Append(st.chunks, Emit(st, doc)) ELSE st.chunks

chunk_document(t, doc, cs, ov) ==
    IF t = <<>> \/ Len(t) < cs THEN SingleChunk(t, doc)
    ELSE Finish(ParaLoop(LoopStart, SplitParagraphs(t), 1, doc, cs, ov), doc)

(***************************************************************************)
(* One call of chunk_document on an arbitrary text.                        *)
(***************************************************************************)
Texts == UNION {[1..n -> Chars] : n \in 0..MaxTextLen}

ChunkerIdle ==
    /\ text = <<>> /\ document_id = "doc" /\ chunk_size = 1 /\ overlap = 0
    /\ chunks = <<>> /\ chunker_pc = "idle"
FilterIdle ==
    /\ in_chunks = <<>> /\ event_keywords = <<>> /\ relevant = <<>> /\ filter_pc = "idle"
StatIdle ==
    /\ stat_fn = "none" /\ stat_args = <<>> /\ stat_ret = <<>>
RetryIdle ==
    /\ caller = "none" /\ client = FALSE /\ attempt = 0 /\ retry_pc = "idle"
    /\ api_calls = 0 /\ sleeps = <<>> /\ errors = <<>> /\ ret = "none"
PoolIdle ==
    /\ max_workers = 1 /\ total_chunks = 0 /\ batch_start = 0 /\ pool_pc = "idle"
    /\ futures = <<>> /\ work_queue = <<>> /\ idle_semaphore = 0 /\ threads = 0
    /\ completed = 0 /\ chunk_results = <<>> /\ pauses = <<>> /\ pool_ret = "none"
MainIdle ==
    /\ gutenberg_data = <<>> /\ loc_data = <<>> /\ extractor_client = FALSE
    /\ output_file = [state |-> "absent", content |-> <<>>] /\ existing = <<>> /\ all_extractions = <<>>
    /\ processed_pairs = {} /\ event_idx = 1 /\ phase = "gutenberg" /\ doc_idx = 1
    /\ main_pc = "idle" /\ extractions = <<>> /\ extract_calls = <<>>
ComparatorIdle ==
    /\ self_extractions = <<>> /\ pairs = <<>> /\ comparator_pc = "idle"
ExperimentIdle ==
    /\ sample_pairs = 0 /\ num_runs = 1 /\ pair_idx = 0 /\ all_pair_results = <<>>
    /\ experiment_pc = "idle" /\ experiment_results = <<>>

CombineIdle ==
    /\ chunks_to_combine = <<>> /\ max_length = 0 /\ combined = <<>> /\ combine_pc = "idle"
FetchIdle ==
    /\ url_is_item = FALSE /\ fetch_attempt = 0 /\ fetch_pc = "idle" /\ gets = <<>>
    /\ fetch_sleeps = <<>> /\ cookies_cleared = 0 /\ fetch_ret = "none"
JudgeIdle ==
    /\ judge_pairs = <<>> /\ judge_client = FALSE /\ judge_idx = 0 /\ all_results = <<>>
    /\ failed_count = 0 /\ judged = <<>>
    /\ results_file = [state |-> "absent", content |-> <<>>]
    /\ stats_file = [state |-> "absent", content |-> <<>>]
    /\ judge_pc = "idle"
ValidationIdle ==
    /\ validation_attempt = 0 /\ validation_pc = "idle" /\ validation_api_calls = 0
    /\ validation_sleeps = <<>> /\ validation_ret = "none"
SequentialIdle == sequential_pc = "idle" /\ sequential_ret = <<>>
OthersIdle == CombineIdle /\ FetchIdle /\ JudgeIdle /\ ValidationIdle /\ SequentialIdle

ChunkerInit ==
    /\ text \in Texts
    /\ document_id = "doc"
    /\ chunk_size \in 1..MaxChunkSize
    /\ overlap \in 0..MaxOverlap
    /\ chunks = <<>>
    /\ chunker_pc = "call"
    /\ FilterIdle /\ StatIdle /\ RetryIdle /\ PoolIdle /\ MainIdle /\ ComparatorIdle /\ ExperimentIdle /\ OthersIdle

ChunkDocument ==
    /\ chunker_pc = "call"
    /\ chunks' = chunk_document(text, document_id, chunk_size, overlap)
    /\ chunker_pc' = "returned"
    /\ UNCHANGED <<text, document_id, chunk_size, overlap, filterVars, statVars, retryVars, poolVars, mainVars, comparatorVars, experimentVars, otherVars>>

ChunkerNext == ChunkDocument

SpecChunker == ChunkerInit /\ [][ChunkerNext]_vars

(***************************************************************************)
(* Properties of chunk_document.                                           *)
(***************************************************************************)
IsInk(c) == ~IsSpace(c)

\* the non-whitespace characters of s, in order
NonWs(s) == SelectSeq(s, IsInk)

IsPrefix(p, s) == Len(p) <= Len(s) /\ SubSeq(s, 1, Len(p)) = p

\* C1: a text shorter than chunk_size (the empty text included) gives exactly
\* one chunk, with chunk_index 0, start_char 0, end_char = len(text) and the
\* whole input, unchanged, as its text.
C1_ShortTextSingleChunk ==
    (chunker_pc = "returned" /\ Len(text) < chunk_size) =>
        /\ Len(chunks) = 1
        /\ chunks[1].chunk_index = 0
        /\ chunks[1].start_char = 0
        /\ chunks[1].end_char = Len(text)
        /\ chunks[1].text = text

\* a short text that begins and ends with whitespace has been chunked
C1_Witness ==
    /\ chunker_pc = "returned"
    /\ Len(text) < chunk_size
    /\ Len(text) >= 2
    /\ IsSpace(text[1])
    /\ Len(chunks) = 1

\* what chunk i carries of chunk i-1: overlap_text as it stands at the head of
\* the stored (stripped) text of chunk i
CopiedOverlap(i) == LStrip(OverlapText(chunks[i - 1].text, overlap))

\* chunk i without the overlap copied from chunk i-1
Remainder(i) ==
    IF i = 1 THEN chunks[1].text
    ELSE From(chunks[i].text, Len(CopiedOverlap(i)) + 1)

RECURSIVE ConcatRemainders(_)
\* the non-whitespace characters of the remainders of chunks 1..i, in order
ConcatRemainders(i) ==
    IF i = 0 THEN <<>> ELSE ConcatRemainders(i - 1) \o NonWs(Remainder(i))

\* C2: no text is dropped: every chunk after the first begins with the overlap
\* copied from the chunk before it, and the chunks without those copies,
\* concatenated in order, hold exactly the non-whitespace characters of the
\* text, in order, each once.
C2_NoTextDropped ==
    chunker_pc = "returned" =>
        /\ \A i \in 2..Len(chunks) : IsPrefix(CopiedOverlap(i), chunks[i].text)
        /\ ConcatRemainders(Len(chunks)) = NonWs(text)

\* a text cut into three chunks or more, with a real overlap, has been chunked
C2_Witness ==
    /\ chunker_pc = "returned"
    /\ Len(chunks) >= 3
    /\ overlap >= 1
    /\ \E i \in 2..Len(chunks) : Len(CopiedOverlap(i)) < Len(chunks[i - 1].text)

\* the paragraphs the loop works on: stripped, the empty ones skipped
RECURSIVE Stripped(_, _)
Stripped(paragraphs, i) ==
    IF i > Len(paragraphs) THEN <<>>
    ELSE (IF Strip(paragraphs[i]) = <<>> THEN <<>> ELSE <<Strip(paragraphs[i])>>)
         \o Stripped(paragraphs, i + 1)

\* the number of chunks saved once the first k paragraphs have been looped over
SavedAfter(k) ==
    Len(ParaLoop(LoopStart, SubSeq(Stripped(SplitParagraphs(text), 1), 1, k), 1,
                 document_id, chunk_size, overlap).chunks)

\* the paragraph at which chunk i (i >= 2) was begun
NextParagraph(i) ==
    LET ps == Stripped(SplitParagraphs(text), 1)
        k == SetMin({j \in 1..Len(ps) : SavedAfter(j) >= i - 1})
    IN  ps[k]

\* the last `overlap` characters of s, or s when it is not longer than that
ConfiguredSuffix(s) ==
    IF Len(s) > overlap THEN SubSeq(s, Len(s) - overlap + 1, Len(s)) ELSE s

\* C3: in a multi-chunk result every chunk but the first begins with the
\* overlap-length suffix of the previous chunk's text, followed by the
\* paragraph separator and the next paragraph (read as the chunker stores
\* texts: stripped of the whitespace at their ends).
C3_OverlapSuffixPrefix ==
    (chunker_pc = "returned" /\ Len(text) >= chunk_size) =>
        \A i \in 2..Len(chunks) :
            IsPrefix(Strip(ConfiguredSuffix(chunks[i - 1].text) \o <<NL, NL>> \o NextParagraph(i)),
                     chunks[i].text)

\* C20: the text of every chunk returned is at most chunk_size + overlap + 2
\* characters long.
C20_ChunkLengthBounded ==
    chunker_pc = "returned" =>
        \A i \in 1..Len(chunks) : Len(chunks[i].text) <= chunk_size + overlap + 2

\* C26: in the list returned, start_char is strictly increasing from one chunk
\* to the next and end_char - start_char is the length of the chunk's text.
C26_PositionsLocateChunks ==
    chunker_pc = "returned" =>
        /\ \A i \in 1..(Len(chunks) - 1) : chunks[i].start_char < chunks[i + 1].start_char
        /\ \A i \in 1..Len(chunks) :
              chunks[i].end_char - chunks[i].start_char = Len(chunks[i].text)

\* C27 as stated: every call returns at least one chunk.
C27_AtLeastOneChunk ==
    chunker_pc = "returned" => Len(chunks) >= 1

\* C27, amended: a call returns at least one chunk exactly when the text is
\* shorter than chunk_size (the empty text included) or holds a character that
\* is not whitespace; a whitespace-only text of chunk_size characters or more
\* gives the empty list.
C27_ChunkUnlessLongBlank ==
    chunker_pc = "returned" =>
        (Len(chunks) >= 1 <=> (Len(text) < chunk_size \/ NonWs(text) # <<>>))

\* a whitespace-only text at least chunk_size long, with a paragraph break in
\* it, has been chunked
C27_Witness ==
    /\ chunker_pc = "returned"
    /\ Len(text) >= chunk_size
    /\ NonWs(text) = <<>>
    /\ Len(SplitParagraphs(text)) >= 2
    /\ chunks = <<>>

\* C28: chunk_index counts 0, 1, ..., n-1 in list order, chunk_id is
\* '<document_id>_chunk_<chunk_index>', and the chunk ids of the list are
\* pairwise distinct.
C28_IndexesCountUp ==
    chunker_pc = "returned" =>
        /\ \A i \in 1..Len(chunks) :
              /\ chunks[i].chunk_index = i - 1
              /\ chunks[i].chunk_id = <<document_id, "_chunk_", chunks[i].chunk_index>>
        /\ \A i, j \in 1..Len(chunks) : i # j => chunks[i].chunk_id # chunks[j].chunk_id

\* a text cut into three chunks has been chunked
C28_Witness ==
    /\ chunker_pc = "returned"
    /\ Len(text) >= chunk_size
    /\ Len(chunks) = 3
    /\ chunks[3].chunk_index = 2

(***************************************************************************)
(* DocumentChunker.find_relevant_chunks                                    *)
(***************************************************************************)
MaxKeywords == 2
MaxChunks == 2

\* str.lower() on one character
LowerChar(c) ==
    CASE c = "A" -> "a"
      [] c = "B" -> "b"
      [] c = "C" -> "c"
      [] c = "D" -> "d"
      [] c = "L" -> "l"
      [] c = "N" -> "n"
      [] OTHER -> c

\* str.lower()
Lower(s) == [i \in 1..Len(s) |-> LowerChar(s[i])]

\* the operator `in` on strings
Contains(s, sub) ==
    \E i \in 0..(Len(s) - Len(sub)) : SubSeq(s, i + 1, i + Len(sub)) = sub

RECURSIVE SplitWords(_, _, _)
\* str.split(): the runs of non-whitespace characters, scanning at i with the
\* word collected so far
SplitWords(s, i, word) ==
    IF i > Len(s) THEN (IF word = <<>> THEN <<>> ELSE <<word>>)
    ELSE IF IsSpace(s[i])
        THEN (IF word = <<>> THEN <<>> ELSE <<word>>) \o SplitWords(s, i + 1, <<>>)
        ELSE SplitWords(s, i + 1, Append(word, s[i]))

\* mutant: the keywords are compared in the case they were given in
KeywordsAsGiven(keywords) == keywords

\* keywords_lower
KeywordsLower(keywords) == [i \in 1..Len(keywords) |-> Lower(keywords[i])]

RECURSIVE PartialKeywords(_, _)
\* partial_keywords: for every keyword its words, then the keyword itself
PartialKeywords(keywords_lower, i) ==
    IF i > Len(keywords_lower) THEN <<>>
    ELSE SplitWords(keywords_lower[i], 1, <<>>) \o <<keywords_lower[i]>>
         \o PartialKeywords(keywords_lower, i + 1)

\* mutant: words of three characters pass the length test
LongEnoughFromThree(kw) == Len(kw) >= 3

\* len(kw) > 3
LongEnough(kw) == Len(kw) > 3

RECURSIVE UniqueKeywords(_, _, _)
\* unique_keywords: duplicates and short words removed, order kept
UniqueKeywords(partial_keywords, i, seen) ==
    IF i > Len(partial_keywords) THEN <<>>
    ELSE IF partial_keywords[i] \notin seen /\ LongEnough(partial_keywords[i])
        THEN <<partial_keywords[i]>>
             \o UniqueKeywords(partial_keywords, i + 1, seen \cup {partial_keywords[i]})
        ELSE UniqueKeywords(partial_keywords, i + 1, seen)

\* any(keyword in text_lower for keyword in unique_keywords)
AnyKeywordIn(chunk, unique_keywords) ==
    \E k \in 1..Len(unique_keywords) : Contains(Lower(chunk.text), unique_keywords[k])

RECURSIVE FilterChunks(_, _, _)
\* the loop over the chunks
FilterChunks(cs, i, unique_keywords) ==
    IF i > Len(cs) THEN <<>>
    ELSE (IF AnyKeywordIn(cs[i], unique_keywords) THEN <<cs[i]>> ELSE <<>>)
         \o FilterChunks(cs, i + 1, unique_keywords)

find_relevant_chunks(cs, keywords) ==
    FilterChunks(cs, 1,
        UniqueKeywords(PartialKeywords(KeywordsLower(keywords), 1), 1, {}))

(***************************************************************************)
(* One call of find_relevant_chunks on chunk texts and keywords drawn from *)
(* two pools: keywords short and long, of one word and of several, in     *)
(* mixed case, and texts that hold them or parts of them.                  *)
(***************************************************************************)
KeywordPool ==
    { <<>>,
      <<"a", "b", "c">>,
      <<"a", "b", "c", "d">>,
      <<"A", "b", "C", "d">>,
      <<"a", "b", " ", "c", "d">>,
      <<"a", " ", "b">>,
      <<"b", "c", "d", "a", " ", "D", "c">>,
      <<" ", "a", "b", "c">> }

ChunkTextPool ==
    { <<>>,
      <<"a", "b", "c">>,
      <<"x", "A", "B", "C", "D", "x">>,
      <<"a", "b", NL, "c", "d">>,
      <<"A", "b", " ", "c", "D">>,
      <<"B", "c", "d", "a">>,
      <<"b", "c", "d", "a", " ", "d", "c">>,
      <<"d", " ", "a", "b", "c">> }

\* the lists of at most n elements of S
ListsUpTo(S, n) == UNION {[1..k -> S] : k \in 0..n}

\* a chunk list made of the given texts
ChunksOf(texts) ==
    [i \in 1..Len(texts) |-> Chunk("doc", i - 1, texts[i], 0, Len(texts[i]))]

FilterInit ==
    /\ in_chunks \in {ChunksOf(ts) : ts \in ListsUpTo(ChunkTextPool, MaxChunks)}
    /\ event_keywords \in ListsUpTo(KeywordPool, MaxKeywords)
    /\ relevant = <<>>
    /\ filter_pc = "call"
    /\ ChunkerIdle /\ StatIdle /\ RetryIdle /\ PoolIdle /\ MainIdle /\ ComparatorIdle /\ ExperimentIdle /\ OthersIdle

FindRelevantChunks ==
    /\ filter_pc = "call"
    /\ relevant' = find_relevant_chunks(in_chunks, event_keywords)
    /\ filter_pc' = "returned"
    /\ UNCHANGED <<in_chunks, event_keywords, chunkerVars, statVars, retryVars, poolVars, mainVars, comparatorVars, experimentVars, otherVars>>

FilterNext == FindRelevantChunks

SpecFilter == FilterInit /\ [][FilterNext]_vars

(***************************************************************************)
(* Properties of find_relevant_chunks.                                     *)
(***************************************************************************)
\* the whitespace-separated words of s: the maximal runs without whitespace
WordsOf(s) ==
    {SubSeq(s, i, j) : <<i, j>> \in
        {p \in (1..Len(s)) \X (1..Len(s)) :
            /\ p[1] <= p[2]
            /\ \A k \in p[1]..p[2] : ~IsSpace(s[k])
            /\ (p[1] = 1 \/ IsSpace(s[p[1] - 1]))
            /\ (p[2] = Len(s) \/ IsSpace(s[p[2] + 1]))}}

\* the strings a chunk may be matched on: the lowercased keywords and their
\* words, of more than three characters
Needles ==
    {w \in UNION {{Lower(event_keywords[k])} \cup WordsOf(Lower(event_keywords[k])) :
                    k \in 1..Len(event_keywords)} : Len(w) > 3}

IsReturned(c) == \E i \in 1..Len(relevant) : relevant[i] = c

\* C4: every chunk returned is one of the chunks given and holds, in its
\* lowercased text, a lowercased keyword or a word of one, longer than three
\* characters; with no keywords nothing is returned.
C4_RelevantSound ==
    filter_pc = "returned" =>
        /\ \A i \in 1..Len(relevant) :
            /\ \E j \in 1..Len(in_chunks) : in_chunks[j] = relevant[i]
            /\ \E w \in Needles : Contains(Lower(relevant[i].text), w)
        /\ (event_keywords = <<>> => relevant = <<>>)

\* a chunk was returned for a word of a keyword, and another left out although
\* it holds a keyword of three characters
C4_Witness ==
    /\ filter_pc = "returned"
    /\ Len(relevant) = 1
    /\ Len(in_chunks) = 2
    /\ \E k \in 1..Len(event_keywords) :
        /\ ~Contains(Lower(relevant[1].text), Lower(event_keywords[k]))
        /\ \E w \in WordsOf(Lower(event_keywords[k])) :
            Len(w) > 3 /\ Contains(Lower(relevant[1].text), w)
    /\ \E j \in 1..2, k \in 1..Len(event_keywords) :
        /\ ~IsReturned(in_chunks[j])
        /\ Len(event_keywords[k]) = 3
        /\ Contains(Lower(in_chunks[j].text), Lower(event_keywords[k]))

\* C5 as stated: a chunk holding any keyword as a case-insensitive substring
\* is returned.
C5_AnyKeywordIncluded ==
    filter_pc = "returned" =>
        \A j \in 1..Len(in_chunks) :
            (\E k \in 1..Len(event_keywords) :
                Contains(Lower(in_chunks[j].text), Lower(event_keywords[k])))
            => IsReturned(in_chunks[j])

\* C5 amended: a chunk holding, as a case-insensitive substring, a keyword of
\* more than three characters is returned.
C5_LongKeywordIncluded ==
    filter_pc = "returned" =>
        \A j \in 1..Len(in_chunks) :
            (\E k \in 1..Len(event_keywords) :
                /\ Len(event_keywords[k]) > 3
                /\ Contains(Lower(in_chunks[j].text), Lower(event_keywords[k])))
            => IsReturned(in_chunks[j])

\* a chunk was returned that holds a whole keyword of several short words, in
\* another case than the keyword's
C5_Witness ==
    /\ filter_pc = "returned"
    /\ \E i \in 1..Len(relevant), k \in 1..Len(event_keywords) :
        /\ Len(event_keywords[k]) > 3
        /\ Contains(Lower(relevant[i].text), Lower(event_keywords[k]))
        /\ ~Contains(relevant[i].text, event_keywords[k])
        /\ \A w \in WordsOf(Lower(event_keywords[k])) : Len(w) <= 3

(***************************************************************************)
(* Exact ratios <<numerator, denominator>>, denominator > 0, in lowest     *)
(* terms.                                                                  *)
(***************************************************************************)
Abs(x) == IF x < 0 THEN -x ELSE x

RECURSIVE Gcd(_, _)
Gcd(a, b) == IF b = 0 THEN a ELSE Gcd(b, a % b)

\* n / d for integers n and d # 0
Rat(n, d) ==
    LET g == Gcd(Abs(n), Abs(d))
        sgn == IF d < 0 THEN -1 ELSE 1
    IN  <<sgn * (n \div g), sgn * (d \div g)>>

RatAdd(a, b) == Rat(a[1] * b[2] + b[1] * a[2], a[2] * b[2])
RatSub(a, b) == Rat(a[1] * b[2] - b[1] * a[2], a[2] * b[2])
RatMul(a, b) == Rat(a[1] * b[1], a[2] * b[2])
RatDiv(a, b) == Rat(a[1] * b[2], a[2] * b[1])
Zero == Rat(0, 1)
One == Rat(1, 1)

(***************************************************************************)
(* llm_judge/statistics.py                                                 *)
(***************************************************************************)
MaxRatings == 2
MaxMismatch == 1
MaxScores == 3
MaxResults == 3

\* what a call gives: a value, or the exception it raises
Returns(v) == [raised |-> "no", value |-> v]
Raises(exc) == [raised |-> exc, value |-> <<>>]

\* mutant: a score of exactly 50 falls in the bin above
categorize_open_at_50(score) ==
    IF score <= 25 THEN "low"
    ELSE IF score < 50 THEN "medium-low"
    ELSE IF score <= 75 THEN "medium-high"
    ELSE "high"

categorize(score) ==
    IF score <= 25 THEN "low"
    ELSE IF score <= 50 THEN "medium-low"
    ELSE IF score <= 75 THEN "medium-high"
    ELSE "high"

\* cats1, cats2
Cats(ratings) == [i \in 1..Len(ratings) |-> categorize(ratings[i])]

\* Counter(cats)[cat]
CountOf(cats, cat) == Cardinality({i \in 1..Len(cats) : cats[i] = cat})

\* sum(1 for c1, c2 in zip(cats1, cats2) if c1 == c2)
Matches(cats1, cats2) == Cardinality({i \in 1..Len(cats1) : cats1[i] = cats2[i]})

RECURSIVE SumProducts(_, _, _, _)
\* sum((cat_counts1[cat] / n) * (cat_counts2[cat] / n) for cat in the set)
SumProducts(catset, cats1, cats2, n) ==
    IF catset = {} THEN Zero
    ELSE LET cat == CHOOSE c \in catset : TRUE
         IN  RatAdd(RatMul(Rat(CountOf(cats1, cat), n), Rat(CountOf(cats2, cat), n)),
                    SumProducts(catset \ {cat}, cats1, cats2, n))

\* set(cats1 + cats2)
CatSet(cats1, cats2) ==
    {cats1[i] : i \in 1..Len(cats1)} \cup {cats2[i] : i \in 1..Len(cats2)}

\* mutant: without the special case an expected agreement of 1 divides by zero
KappaWithoutSpecialCase(observed_agreement, expected_agreement) ==
    IF expected_agreement = One THEN Raises("ZeroDivisionError")
    ELSE Returns(RatDiv(RatSub(observed_agreement, expected_agreement),
                        RatSub(One, expected_agreement)))

\* the last step: the special case and the kappa formula
Kappa(observed_agreement, expected_agreement) ==
    IF expected_agreement = One THEN Returns(One)
    ELSE Returns(RatDiv(RatSub(observed_agreement, expected_agreement),
                        RatSub(One, expected_agreement)))

calculate_cohens_kappa(ratings1, ratings2) ==
    IF Len(ratings1) # Len(ratings2) THEN Raises("ValueError")
    ELSE LET cats1 == Cats(ratings1)
             cats2 == Cats(ratings2)
             n == Len(cats1)
         IN  IF n = 0 THEN Raises("ZeroDivisionError")
             ELSE Kappa(Rat(Matches(cats1, cats2), n),
                        SumProducts(CatSet(cats1, cats2), cats1, cats2, n))

RECURSIVE Sum(_, _)
Sum(xs, i) == IF i > Len(xs) THEN 0 ELSE xs[i] + Sum(xs, i + 1)

\* statistics.mean
Mean(scores) == Rat(Sum(scores, 1), Len(scores))

\* statistics.variance: the sample variance, which needs two data points
SampleVariance(scores) ==
    LET n == Len(scores)
        sq == [i \in 1..n |-> scores[i] * scores[i]]
    IN  Rat(n * Sum(sq, 1) - Sum(scores, 1) * Sum(scores, 1), n * (n - 1))

\* a square root, held as the ratio under the root
Sqrt(r) == [sqrt_of |-> r]

\* mutant: the sample variance is asked of a single score too
SeveralScoresFromOne(scores) == Len(scores) >= 1

\* len(scores) > 1
SeveralScores(scores) == Len(scores) > 1

calculate_variance(scores) ==
    IF scores = <<>>
    THEN Returns([mean |-> Zero, variance |-> Zero, std_dev |-> Sqrt(Zero),
                  min |-> 0, max |-> 0, count |-> 0])
    \* statistics.variance and statistics.stdev raise on fewer than two scores
    ELSE IF SeveralScores(scores) /\ Len(scores) < 2 THEN Raises("StatisticsError")
    ELSE Returns([mean |-> Mean(scores),
                  variance |-> IF SeveralScores(scores) THEN SampleVariance(scores) ELSE Zero,
                  std_dev |-> IF SeveralScores(scores) THEN Sqrt(SampleVariance(scores))
                              ELSE Sqrt(Zero),
                  min |-> SetMin({scores[i] : i \in 1..Len(scores)}),
                  max |-> SetMax({scores[i] : i \in 1..Len(scores)}),
                  count |-> Len(scores)])

\* ContradictionClassification.type: Literal["Factual", "Interpretive", "Omission", "None"]
ContradictionTypes == {"Factual", "Interpretive", "Omission", "None"}

\* mutant: the type is read from the result, where it is not, so the default is taken
TypeOfFromResult(result) ==
    IF result.kind = "ct_not_dict" THEN result.str ELSE "Unknown"

\* ct_type for one result.  A result is modelled by its shape:
\*   not_dict     not a dictionary;
\*   no_ct        a dictionary without 'contradiction_type';
\*   ct_no_type   'contradiction_type' is a dictionary without 'type';
\*   ct_dict      'contradiction_type' is a dictionary with 'type';
\*   ct_not_dict  'contradiction_type' is no dictionary, str its str().
TypeOf(result) ==
    CASE result.kind = "not_dict" -> "Unknown"
      [] result.kind = "no_ct" -> "Unknown"
      [] result.kind = "ct_no_type" -> "Unknown"
      [] result.kind = "ct_dict" -> result.type
      [] result.kind = "ct_not_dict" -> result.str

\* contradiction_types
TypesOf(results) == [i \in 1..Len(results) |-> TypeOf(results[i])]

\* dict(Counter(contradiction_types))
analyze_contradiction_distribution(results) ==
    LET contradiction_types == TypesOf(results)
    IN  [t \in {contradiction_types[i] : i \in 1..Len(results)} |->
            Cardinality({i \in 1..Len(results) : contradiction_types[i] = t})]

(***************************************************************************)
(* One call of one function of statistics.py.  Scores lie on both sides of *)
(* every bin boundary.  A judge result is a dictionary as main builds it   *)
(* from a validated JudgeResult; the other shapes are what the function    *)
(* also accepts.                                                           *)
(***************************************************************************)
ScoreValues == {25, 26, 50, 51, 75, 76}

Result(kind, type, str) == [kind |-> kind, type |-> type, str |-> str]

JudgeResults == {Result("ct_dict", t, "") : t \in ContradictionTypes}

OtherResults ==
    { Result("not_dict", "", ""), Result("no_ct", "", ""), Result("ct_no_type", "", ""),
      Result("ct_not_dict", "", "None"), Result("ct_not_dict", "", "Factual, with caveats") }

StatInit ==
    /\ stat_fn = "none" /\ stat_args = <<>> /\ stat_ret = <<>>
    /\ ChunkerIdle /\ FilterIdle /\ RetryIdle /\ PoolIdle /\ MainIdle /\ ComparatorIdle /\ ExperimentIdle /\ OthersIdle

\* the call with two lists of one length, or of two lengths
CallCohensKappa ==
    /\ stat_fn = "none"
    /\ \/ \E n \in 0..MaxRatings :
            \E ratings1 \in [1..n -> ScoreValues], ratings2 \in [1..n -> ScoreValues] :
                /\ stat_args' = <<ratings1, ratings2>>
                /\ stat_ret' = calculate_cohens_kappa(ratings1, ratings2)
       \/ \E ratings1 \in ListsUpTo(ScoreValues, MaxMismatch),
             ratings2 \in ListsUpTo(ScoreValues, MaxMismatch) :
                /\ stat_args' = <<ratings1, ratings2>>
                /\ stat_ret' = calculate_cohens_kappa(ratings1, ratings2)
    /\ stat_fn' = "calculate_cohens_kappa"
    /\ UNCHANGED <<chunkerVars, filterVars, retryVars, poolVars, mainVars, comparatorVars, experimentVars, otherVars>>

CallVariance ==
    /\ stat_fn = "none"
    /\ \E scores \in ListsUpTo(ScoreValues, MaxScores) :
        /\ stat_args' = <<scores>>
        /\ stat_ret' = calculate_variance(scores)
    /\ stat_fn' = "calculate_variance"
    /\ UNCHANGED <<chunkerVars, filterVars, retryVars, poolVars, mainVars, comparatorVars, experimentVars, otherVars>>

CallContradictionDistribution ==
    /\ stat_fn = "none"
    /\ \E results \in ListsUpTo(JudgeResults \cup OtherResults, MaxResults) :
        /\ stat_args' = <<results>>
        /\ stat_ret' = Returns(analyze_contradiction_distribution(results))
    /\ stat_fn' = "analyze_contradiction_distribution"
    /\ UNCHANGED <<chunkerVars, filterVars, retryVars, poolVars, mainVars, comparatorVars, experimentVars, otherVars>>

StatNext == CallCohensKappa \/ CallVariance \/ CallContradictionDistribution

SpecStatistics == StatInit /\ [][StatNext]_vars

(***************************************************************************)
(* Properties of statistics.py.                                            *)
(***************************************************************************)
\* the four bins, by their score ranges
Bin(score) ==
    CASE score <= 25 -> 1
      [] score >= 26 /\ score <= 50 -> 2
      [] score >= 51 /\ score <= 75 -> 3
      [] score >= 76 -> 4

\* the share of the positions of ratings that lie in bin b
Share(ratings, b) ==
    Rat(Cardinality({i \in 1..Len(ratings) : Bin(ratings[i]) = b}), Len(ratings))

\* the fraction of positions whose two bins match
Observed(r1, r2) ==
    Rat(Cardinality({i \in 1..Len(r1) : Bin(r1[i]) = Bin(r2[i])}), Len(r1))

\* the sum over the four bins of the products of the two shares
Expected(r1, r2) ==
    RatAdd(RatAdd(RatMul(Share(r1, 1), Share(r2, 1)), RatMul(Share(r1, 2), Share(r2, 2))),
           RatAdd(RatMul(Share(r1, 3), Share(r2, 3)), RatMul(Share(r1, 4), Share(r2, 4))))

KappaCalled == stat_fn = "calculate_cohens_kappa"

\* C6: for two non-empty score lists of equal length, kappa is 1 when the
\* expected agreement is 1, and otherwise
\* (observed - expected) / (1 - expected), observed and expected being taken
\* over the four bins <= 25, 26..50, 51..75, >= 76.
C6_KappaFormula ==
    (KappaCalled /\ Len(stat_args[1]) = Len(stat_args[2]) /\ Len(stat_args[1]) > 0) =>
        LET r1 == stat_args[1]
            r2 == stat_args[2]
        IN  /\ stat_ret.raised = "no"
            /\ Expected(r1, r2) = One => stat_ret.value = One
            /\ Expected(r1, r2) # One =>
                RatMul(stat_ret.value, RatSub(One, Expected(r1, r2)))
                    = RatSub(Observed(r1, r2), Expected(r1, r2))

\* kappa was computed for two lists that agree in one position only, on a
\* score of exactly 50 against 26, and came out strictly between 0 and 1
C6_Witness ==
    /\ KappaCalled
    /\ Len(stat_args[1]) = 2 /\ Len(stat_args[2]) = 2
    /\ \E i \in 1..2 : stat_args[1][i] = 50 /\ stat_args[2][i] = 26
    /\ stat_ret.raised = "no"
    /\ stat_ret.value[1] > 0
    /\ stat_ret.value[1] < stat_ret.value[2]

\* C7: kappa of a list of two scores or more with itself is 1, whether the
\* scores fall into several bins or into one.
C7_KappaOfIdenticalLists ==
    (KappaCalled /\ stat_args[1] = stat_args[2] /\ Len(stat_args[1]) >= 2) =>
        stat_ret = Returns(One)

\* kappa of a list with itself was computed, the scores lying in several bins
C7_Witness ==
    /\ KappaCalled
    /\ stat_args[1] = stat_args[2]
    /\ Len(stat_args[1]) >= 2
    /\ \E i, j \in 1..Len(stat_args[1]) : Bin(stat_args[1][i]) # Bin(stat_args[1][j])
    /\ stat_ret = Returns(One)

\* C23: for two lists of one length (two empty lists included) kappa is
\* returned and lies in [-1, 1]; ValueError is raised exactly when the lengths
\* differ.
C23_KappaInRange ==
    KappaCalled =>
        /\ stat_ret = Raises("ValueError") <=> Len(stat_args[1]) # Len(stat_args[2])
        /\ Len(stat_args[1]) = Len(stat_args[2]) =>
              /\ stat_ret.raised = "no"
              /\ stat_ret.value[1] <= stat_ret.value[2]
              /\ -stat_ret.value[1] <= stat_ret.value[2]

VarianceCalled == stat_fn = "calculate_variance"

\* C8: the empty list gives mean, variance, std_dev, min, max and count 0; a
\* list of one score x gives variance 0 and std_dev 0, count 1 and
\* mean = min = max = x.
C8_VarianceDegenerate ==
    VarianceCalled =>
        LET scores == stat_args[1]
        IN  /\ scores = <<>> =>
                stat_ret = Returns([mean |-> Zero, variance |-> Zero, std_dev |-> Sqrt(Zero),
                                    min |-> 0, max |-> 0, count |-> 0])
            /\ Len(scores) = 1 =>
                /\ stat_ret.raised = "no"
                /\ stat_ret.value.variance = Zero
                /\ stat_ret.value.std_dev = Sqrt(Zero)
                /\ stat_ret.value.count = 1
                /\ stat_ret.value.mean = Rat(scores[1], 1)
                /\ stat_ret.value.min = scores[1]
                /\ stat_ret.value.max = scores[1]

\* the statistics of a single score were computed
C8_Witness ==
    /\ VarianceCalled
    /\ Len(stat_args[1]) = 1
    /\ stat_ret.raised = "no"
    /\ stat_ret.value.count = 1

DistributionCalled == stat_fn = "analyze_contradiction_distribution"

\* C9: for every list of judge results the keys of the frequency count belong
\* to {Factual, Interpretive, Omission, None}.
C9_DistributionKeysClosed ==
    (DistributionCalled /\ \A i \in 1..Len(stat_args[1]) : stat_args[1][i] \in JudgeResults) =>
        DOMAIN stat_ret.value \subseteq ContradictionTypes

\* judge results of several types, one of them twice, were counted
C9_Witness ==
    /\ DistributionCalled
    /\ Len(stat_args[1]) = 3
    /\ \A i \in 1..3 : stat_args[1][i] \in JudgeResults
    /\ Cardinality(DOMAIN stat_ret.value) = 2

(***************************************************************************)
(* LLMEventExtractor.extract_event_info and LLMJudge.compare_accounts: the *)
(* retry loop around the API call.  Times are in microseconds.  An error   *)
(* is modelled by what the handler reads in str(e): whether it holds       *)
(* 'rate_limit', '429' or 'rate limit', and the wait it names after        *)
(* 'try again in'.                                                         *)
(***************************************************************************)
max_retries == 3
retry_delay == 1000000
min_wait == 500000

Callers == {"extract_event_info", "compare_accounts"}

\* the wait named in the message:
\*   none        no 'try again in';
\*   unmatched   'try again in' not followed by a number;
\*   bad_number  followed by digits and dots float() rejects;
\*   match       followed by a number, in thousandths, and the unit s, m or none.
Hint(kind, val, unit) == [kind |-> kind, val |-> val, unit |-> unit]

Hints ==
    { Hint("none", 0, ""), Hint("unmatched", 0, ""), Hint("bad_number", 0, ""),
      Hint("match", 100, "s"), Hint("match", 20000, "s"), Hint("match", 200000, "m"),
      Hint("match", 7000, "") }

Error(us, code, sp, hint) ==
    [rate_limit_us |-> us, has_429 |-> code, rate_limit_sp |-> sp, hint |-> hint]

Errors ==
    {Error(f[1], f[2], f[3], h) :
        f \in {<<FALSE, FALSE, FALSE>>, <<TRUE, FALSE, FALSE>>, <<FALSE, TRUE, FALSE>>,
               <<FALSE, FALSE, TRUE>>},
        h \in Hints}

\* 'rate_limit' in error_str.lower() or '429' in error_str or 'rate limit' in error_str.lower()
IsRateLimit(e) == e.rate_limit_us \/ e.has_429 \/ e.rate_limit_sp

RECURSIVE Pow2(_)
Pow2(n) == IF n = 0 THEN 1 ELSE 2 * Pow2(n - 1)

\* wait_time
WaitTime(e, att) ==
    IF e.hint.kind = "match"
    THEN Max(IF e.hint.unit = "s" THEN e.hint.val * 1000 ELSE e.hint.val, min_wait)
    ELSE retry_delay * Pow2(att)

\* mutant: every error is retried while attempts are left
HandlerRetryingAll(e, att) ==
    IF att < max_retries - 1 THEN "sleep_and_continue" ELSE "return_none"

\* mutant: the last attempt sleeps and goes round the loop like the others
HandlerSleepingOnLast(e, att) ==
    IF IsRateLimit(e) THEN "sleep_and_continue" ELSE "return_none"

\* what the except block does with error e on attempt att
Handler(e, att) ==
    IF IsRateLimit(e)
    THEN IF att < max_retries - 1 THEN "sleep_and_continue" ELSE "return_none"
    ELSE "return_none"

RetryInit ==
    /\ caller \in Callers
    /\ client \in BOOLEAN
    /\ attempt = 0
    /\ retry_pc = "start"
    /\ api_calls = 0
    /\ sleeps = <<>>
    /\ errors = <<>>
    /\ ret = "none"
    /\ ChunkerIdle /\ FilterIdle /\ StatIdle /\ PoolIdle /\ MainIdle /\ ComparatorIdle /\ ExperimentIdle /\ OthersIdle

\* if not self.client: return None
ClientMissing ==
    /\ retry_pc = "start"
    /\ ~client
    /\ ret' = "None"
    /\ retry_pc' = "done"
    /\ UNCHANGED <<caller, client, attempt, api_calls, sleeps, errors,
                   chunkerVars, filterVars, statVars, poolVars, mainVars, comparatorVars, experimentVars, otherVars>>

\* the prompt is built and the loop entered
EnterLoop ==
    /\ retry_pc = "start"
    /\ client
    /\ attempt' = 0
    /\ retry_pc' = "try"
    /\ UNCHANGED <<caller, client, api_calls, sleeps, errors, ret,
                   chunkerVars, filterVars, statVars, poolVars, mainVars, comparatorVars, experimentVars, otherVars>>

\* the API call of this attempt returns, and so does the function
ApiReturns ==
    /\ retry_pc = "try"
    /\ attempt < max_retries
    /\ api_calls' = api_calls + 1
    /\ ret' = "result"
    /\ retry_pc' = "done"
    /\ UNCHANGED <<caller, client, attempt, sleeps, errors,
                   chunkerVars, filterVars, statVars, poolVars, mainVars, comparatorVars, experimentVars, otherVars>>

\* the API call of this attempt raises e: the except block
ApiRaises ==
    /\ retry_pc = "try"
    /\ attempt < max_retries
    /\ \E e \in Errors :
        /\ api_calls' = api_calls + 1
        /\ errors' = Append(errors, e)
        /\ IF Handler(e, attempt) = "sleep_and_continue"
           THEN /\ sleeps' = Append(sleeps, WaitTime(e, attempt))
                /\ attempt' = attempt + 1
                /\ UNCHANGED <<retry_pc, ret>>
           ELSE /\ ret' = "None"
                /\ retry_pc' = "done"
                /\ UNCHANGED <<sleeps, attempt>>
    /\ UNCHANGED <<caller, client, chunkerVars, filterVars, statVars, poolVars, mainVars, comparatorVars, experimentVars, otherVars>>

\* The return None after the loop is never reached: the last attempt returns
\* on every path.
RetryNext == ClientMissing \/ EnterLoop \/ ApiReturns \/ ApiRaises

SpecRetry == RetryInit /\ [][RetryNext]_vars

(***************************************************************************)
(* Properties of the retry loops.                                          *)
(***************************************************************************)
\* C10: an error that is not classified as a rate-limit error is never
\* retried: on whichever attempt it is raised it is the last error of the
\* call, which has returned None, with no API call after the one that raised
\* it and no sleep but those that followed the rate-limit errors before it.
C10_OtherErrorsNotRetried ==
    \A i \in 1..Len(errors) :
        ~IsRateLimit(errors[i]) =>
            /\ i = Len(errors)
            /\ retry_pc = "done"
            /\ ret = "None"
            /\ api_calls = i
            /\ Len(sleeps) = i - 1

\* the second attempt, made after a rate-limit error and its sleep, raised an
\* error of another kind and the call returned None
C10_Witness ==
    /\ Len(errors) = 2
    /\ IsRateLimit(errors[1])
    /\ ~IsRateLimit(errors[2])
    /\ Len(sleeps) = 1
    /\ api_calls = 2
    /\ retry_pc = "done"
    /\ ret = "None"

\* the rate-limit errors among the first n errors of the call
RateLimited(n) == {i \in 1..n : i <= Len(errors) /\ IsRateLimit(errors[i])}

\* C11: both retry loops stop after at most three API calls. A sleep is made
\* after a rate-limit error of the first or the second attempt and at no other
\* point, so there are at most two, each of at least half a second; a third
\* rate-limit error in a row returns None with no sleep after it; a
\* successful attempt returns its result at once; and while the call has not
\* returned, fewer than three API calls have been made, every one of them
\* raised a rate-limit error, and a further attempt is possible.
C11_AtMostThreeCalls ==
    /\ api_calls <= max_retries
    /\ Len(sleeps) <= max_retries - 1
    /\ Len(sleeps) = Cardinality(RateLimited(max_retries - 1))
    /\ \A i \in 1..Len(sleeps) : sleeps[i] >= min_wait
    /\ Len(errors) = max_retries =>
           /\ retry_pc = "done" /\ ret = "None"
           /\ api_calls = max_retries /\ Len(sleeps) = max_retries - 1
    /\ ret = "result" =>
           /\ retry_pc = "done" /\ api_calls = Len(errors) + 1
           /\ Len(sleeps) = Len(errors)
    /\ retry_pc = "try" =>
           /\ attempt = api_calls /\ attempt < max_retries
           /\ api_calls = Len(errors) /\ Len(sleeps) = Len(errors)
           /\ ret = "none"
           /\ ENABLED ApiReturns /\ ENABLED ApiRaises
    /\ retry_pc = "done" <=> ret # "none"

\* three rate-limit errors in a row: two sleeps, three API calls, None
C11_Witness ==
    /\ Len(errors) = max_retries
    /\ \A i \in 1..max_retries : IsRateLimit(errors[i])
    /\ api_calls = max_retries
    /\ Len(sleeps) = max_retries - 1
    /\ retry_pc = "done"
    /\ ret = "None"

(***************************************************************************)
(* LLMEventExtractor.extract_from_document_parallel: the relevant chunks   *)
(* of one document are submitted to a ThreadPoolExecutor batch by batch    *)
(* and collected by the calling thread as they complete.                   *)
(*                                                                         *)
(* Chunk i of relevant_chunks is the number i in 1..total_chunks.  A       *)
(* future is a record: state is "pending" before its submit, then          *)
(* "queued", "running", "finished" and, once as_completed has yielded it   *)
(* and the loop body has run, "collected"; outcome is what                 *)
(* future.result() then gave the collecting thread.  threads is the number of worker *)
(* threads the executor has started; each runs one work item at a time, so *)
(* those that run none wait on the work queue.  chunk_results is the list  *)
(* the code calls results.                                                 *)
(***************************************************************************)
MaxWorkers == 2
MaxRelevantChunks == 5

\* time.sleep(2.0), in microseconds
batch_pause == 2000000

\* what future.result() gives for one extract_event_info call: a dict with claims,
\* a value that fails the test result and result.get('claims') (None, or a
\* dict whose claims list is empty), or an exception
Outcomes == {"claims", "no_claims", "raised"}

Future(state, outcome) == [state |-> state, outcome |-> outcome]

Min(a, b) == IF a <= b THEN a ELSE b

\* mutant: batches of three tasks per worker
batch_size_three_each == max_workers * 3

\* batch_size = max_workers * 2
batch_size == max_workers * 2

\* batch_end = min(batch_start + batch_size, total_chunks)
batch_end == Min(batch_start + batch_size, total_chunks)

\* the chunks of batch_chunks = relevant_chunks[batch_start:batch_end]
batch_chunks == (batch_start + 1)..batch_end

InState(st) == {i \in 1..total_chunks : futures[i].state = st}

PoolInit ==
    /\ max_workers \in 1..MaxWorkers
    /\ total_chunks \in 0..MaxRelevantChunks
    /\ batch_start = 0
    /\ pool_pc = "call"
    /\ futures = [i \in 1..total_chunks |-> Future("pending", "none")]
    /\ work_queue = <<>>
    /\ idle_semaphore = 0
    /\ threads = 0
    /\ completed = 0
    /\ chunk_results = <<>>
    /\ pauses = <<>>
    /\ pool_ret = "none"
    /\ ChunkerIdle /\ FilterIdle /\ StatIdle /\ RetryIdle /\ MainIdle /\ ComparatorIdle /\ ExperimentIdle /\ OthersIdle

\* if not relevant_chunks: return []
NoRelevantChunks ==
    /\ pool_pc = "call"
    /\ total_chunks = 0
    /\ pool_ret' = <<>>
    /\ pool_pc' = "returned"
    /\ UNCHANGED <<max_workers, total_chunks, batch_start, futures, work_queue,
                   idle_semaphore, threads, completed, chunk_results, pauses,
                   chunkerVars, filterVars, statVars, retryVars, mainVars, comparatorVars, experimentVars, otherVars>>

\* the executor is created and the first batch begins
EnterExecutor ==
    /\ pool_pc = "call"
    /\ total_chunks > 0
    /\ batch_start' = 0
    /\ pool_pc' = "submit"
    /\ UNCHANGED <<max_workers, total_chunks, futures, work_queue, idle_semaphore,
                   threads, completed, chunk_results, pauses, pool_ret,
                   chunkerVars, filterVars, statVars, retryVars, mainVars, comparatorVars, experimentVars, otherVars>>

\* one executor.submit of the dict comprehension: the work item is queued and
\* a worker thread is started when none is idle and fewer than max_workers
\* exist
Submit ==
    /\ pool_pc = "submit"
    /\ batch_chunks \cap InState("pending") # {}
    /\ LET i == SetMin(batch_chunks \cap InState("pending")) IN
        /\ futures' = [futures EXCEPT ![i] = Future("queued", "none")]
        /\ work_queue' = Append(work_queue, i)
        /\ IF idle_semaphore > 0
           THEN /\ idle_semaphore' = idle_semaphore - 1
                /\ UNCHANGED threads
           ELSE /\ threads' = IF threads < max_workers THEN threads + 1 ELSE threads
                /\ UNCHANGED idle_semaphore
        /\ pool_pc' = IF i = batch_end THEN "collect" ELSE "submit"
    /\ UNCHANGED <<max_workers, total_chunks, batch_start, completed, chunk_results,
                   pauses, pool_ret,
                   chunkerVars, filterVars, statVars, retryVars, mainVars, comparatorVars, experimentVars, otherVars>>

\* a waiting worker thread takes the oldest work item and starts
\* extract_event_info on it
WorkerTakes ==
    /\ work_queue # <<>>
    /\ Cardinality(InState("running")) < threads
    /\ futures' = [futures EXCEPT ![Head(work_queue)] = Future("running", "none")]
    /\ work_queue' = Tail(work_queue)
    /\ UNCHANGED <<max_workers, total_chunks, batch_start, pool_pc, idle_semaphore,
                   threads, completed, chunk_results, pauses, pool_ret,
                   chunkerVars, filterVars, statVars, retryVars, mainVars, comparatorVars, experimentVars, otherVars>>

\* extract_event_info ends in a worker thread: the future is finished and
\* the thread goes back to the work queue
WorkerFinishes ==
    /\ \E i \in InState("running") :
        futures' = [futures EXCEPT ![i] = Future("finished", "none")]
    /\ idle_semaphore' = idle_semaphore + 1
    /\ UNCHANGED <<max_workers, total_chunks, batch_start, pool_pc, work_queue,
                   threads, completed, chunk_results, pauses, pool_ret,
                   chunkerVars, filterVars, statVars, retryVars, mainVars, comparatorVars, experimentVars, otherVars>>

\* mutant: the list is replaced by the new element, earlier appends are lost
CollectedLosingAppends(o, i) == IF o = "claims" THEN <<i>> ELSE chunk_results

\* mutant: a pause follows every batch
AfterBatchAlwaysSleeps == "sleep"

\* if batch_end < total_chunks: time.sleep(2.0); otherwise the for loop over
\* the batches has ended
AfterBatch == IF batch_end < total_chunks THEN "sleep" ELSE "exit"

\* mutant: the result is appended whether it has claims or not
CollectedWhateverOutcome(o, i) == Append(chunk_results, i)

\* append of the loop body, by the outcome of the future
Collected(o, i) == IF o = "claims" THEN Append(chunk_results, i) ELSE chunk_results

\* one round of for future in as_completed(future_to_chunk), in the calling
\* thread: a finished future of the batch is yielded, counted, and its result
\* appended when it has claims; after the last future of the batch the loop
\* ends
Collect ==
    /\ pool_pc = "collect"
    /\ \E i \in batch_chunks, o \in Outcomes :
        /\ futures[i].state = "finished"
        /\ futures' = [futures EXCEPT ![i] = Future("collected", o)]
        /\ completed' = completed + 1
        /\ chunk_results' = Collected(o, i)
        /\ pool_pc' = IF batch_chunks \subseteq InState("collected") \cup {i}
                      THEN AfterBatch
                      ELSE "collect"
    /\ UNCHANGED <<max_workers, total_chunks, batch_start, work_queue,
                   idle_semaphore, threads, pauses, pool_ret,
                   chunkerVars, filterVars, statVars, retryVars, mainVars, comparatorVars, experimentVars, otherVars>>

\* time.sleep(2.0), then the next batch
Pause ==
    /\ pool_pc = "sleep"
    /\ pauses' = Append(pauses, [after |-> batch_end, wait |-> batch_pause])
    /\ batch_start' = batch_start + batch_size
    /\ pool_pc' = "submit"
    /\ UNCHANGED <<max_workers, total_chunks, futures, work_queue, idle_semaphore,
                   threads, completed, chunk_results, pool_ret,
                   chunkerVars, filterVars, statVars, retryVars, mainVars, comparatorVars, experimentVars, otherVars>>

\* the with block ends after the last batch and the list is returned
ReturnResults ==
    /\ pool_pc = "exit"
    /\ pool_ret' = chunk_results
    /\ pool_pc' = "returned"
    /\ UNCHANGED <<max_workers, total_chunks, batch_start, futures, work_queue,
                   idle_semaphore, threads, completed, chunk_results, pauses,
                   chunkerVars, filterVars, statVars, retryVars, mainVars, comparatorVars, experimentVars, otherVars>>

\* KeyboardInterrupt in the calling thread while it submits, waits in
\* as_completed or sleeps: the with block is left by the exception
Interrupt ==
    /\ pool_pc \in {"submit", "collect", "sleep"}
    /\ pool_pc' = "interrupted"
    /\ UNCHANGED <<max_workers, total_chunks, batch_start, futures, work_queue,
                   idle_semaphore, threads, completed, chunk_results, pauses, pool_ret,
                   chunkerVars, filterVars, statVars, retryVars, mainVars, comparatorVars, experimentVars, otherVars>>

\* the executor's __exit__ has waited for every submitted work item; the
\* interrupt leaves the function
RaiseInterrupt ==
    /\ pool_pc = "interrupted"
    /\ work_queue = <<>>
    /\ InState("running") = {}
    /\ pool_ret' = "KeyboardInterrupt"
    /\ pool_pc' = "raised"
    /\ UNCHANGED <<max_workers, total_chunks, batch_start, futures, work_queue,
                   idle_semaphore, threads, completed, chunk_results, pauses,
                   chunkerVars, filterVars, statVars, retryVars, mainVars, comparatorVars, experimentVars, otherVars>>

PoolNext ==
    \/ NoRelevantChunks \/ EnterExecutor \/ Submit \/ WorkerTakes \/ WorkerFinishes
    \/ Collect \/ Pause \/ ReturnResults \/ Interrupt \/ RaiseInterrupt

SpecPool == PoolInit /\ [][PoolNext]_vars

(***************************************************************************)
(* Properties of the parallel extraction.                                  *)
(***************************************************************************)
\* the futures that are submitted and not yet collected
Outstanding == InState("queued") \cup InState("running") \cup InState("finished")

\* C12: at every moment at most max_workers extract_event_info calls are
\* running, in at most max_workers worker threads, and at most
\* 2 * max_workers chunk tasks are submitted and not yet collected.
C12_BoundedConcurrency ==
    /\ threads <= max_workers
    /\ Cardinality(InState("running")) <= max_workers
    /\ Cardinality(Outstanding) <= 2 * max_workers

\* two workers, both busy, and a full batch of four tasks outstanding
C12_Witness ==
    /\ max_workers = 2
    /\ Cardinality(InState("running")) = 2
    /\ Cardinality(Outstanding) = 4
    /\ InState("queued") # {}
    /\ InState("finished") # {}

\* the chunks whose futures were collected with a result that has claims
CollectedWithClaims ==
    {i \in InState("collected") : futures[i].outcome = "claims"}

Elements(seq) == {seq[k] : k \in 1..Len(seq)}

\* C13: the results list changes only in a step of the collecting thread
\* that takes one finished future, and then by the append of that future's
\* result; the steps of the worker threads leave it as it is.  So at every
\* moment the list holds the result of every collected future that had
\* claims, each exactly once, and nothing else, and completed counts the
\* collected futures.
C13_OnlyCollectorAppends ==
    /\ [](/\ Elements(chunk_results) = CollectedWithClaims
          /\ Len(chunk_results) = Cardinality(CollectedWithClaims)
          /\ completed = Cardinality(InState("collected")))
    /\ [][/\ (WorkerTakes \/ WorkerFinishes) => chunk_results' = chunk_results
          /\ chunk_results' # chunk_results =>
                /\ pool_pc = "collect"
                /\ \E i \in InState("finished") :
                    /\ futures' = [futures EXCEPT ![i] = Future("collected", "claims")]
                    /\ chunk_results' = Append(chunk_results, i)]_vars

\* three results collected out of submission order, after a future without
\* claims, while a worker still runs
C13_Witness ==
    /\ max_workers = 2
    /\ Len(chunk_results) = 3
    /\ chunk_results[1] > chunk_results[2]
    /\ \E i \in InState("collected") : futures[i].outcome # "claims"
    /\ InState("running") # {}

\* the batch of chunk i, counted from 0
BatchOf(i) == (i - 1) \div batch_size

\* the number of batches of the call
NumBatches == (total_chunks + batch_size - 1) \div batch_size

\* C14: a chunk of a later batch is submitted only when every chunk of every
\* earlier batch is collected and one pause of 2 seconds has been made after
\* each earlier batch; pauses are made after full batches that are not the
\* last one, and a call that returns has made one pause less than it had
\* batches.
C14_BatchesInSequence ==
    /\ \A i, j \in 1..total_chunks :
          (BatchOf(i) < BatchOf(j) /\ futures[j].state # "pending")
              => futures[i].state = "collected"
    /\ \A j \in 1..total_chunks :
          futures[j].state # "pending" => Len(pauses) >= BatchOf(j)
    /\ Len(pauses) * batch_size = batch_start
    /\ \A k \in 1..Len(pauses) :
          /\ pauses[k].after = k * batch_size
          /\ pauses[k].after < total_chunks
          /\ pauses[k].wait = batch_pause
    /\ (pool_pc = "returned" /\ total_chunks > 0) => Len(pauses) = NumBatches - 1

\* a call with two workers that returned after two batches and one pause
C14_Witness ==
    /\ pool_pc = "returned"
    /\ max_workers = 2
    /\ total_chunks > batch_size
    /\ Len(pauses) = 1
    /\ InState("collected") = 1..total_chunks

(***************************************************************************)
(* event_extraction/main.py: one run of main.  For every event, every      *)
(* Gutenberg book and then every LoC document with enough content is       *)
(* handed to extract_from_document_parallel; the results are added to      *)
(* all_extractions and the whole list is written to                        *)
(* event_extractions.json.                                                 *)
(*                                                                         *)
(* output_file is the file on disk: absent, unreadable (json.load fails    *)
(* on it) or holding a list.  A document is the length of its content.     *)
(* An extraction is a record naming its document, its event and its place *)
(* among the results of that document.                                     *)
(***************************************************************************)
MaxBooks == 1
MaxLocDocuments == 1
MaxExtractions == 1

\* the first two of the five events of config.KEY_EVENTS; the loop body is
\* the same for every event
KEY_EVENTS == <<"election_night_1860", "fort_sumter">>

\* len(book_content) < 100 and len(doc_content) < 50 skip the document
min_book_content == 100
min_loc_content == 50

ContentLengths == {0, 50, 100}

\* how many results an extraction call returns here: none, or as many as the
\* bound allows
ResultCounts == {0, MaxExtractions}

File(state, content) == [state |-> state, content |-> content]

Datasets(n) == UNION {[1..k -> ContentLengths] : k \in 0..n}

Docs(ph) == IF ph = "gutenberg" THEN gutenberg_data ELSE loc_data

\* if not content or len(content) < minimum: continue
Skipped(ph, content) ==
    content = 0 \/ content < (IF ph = "gutenberg" THEN min_book_content ELSE min_loc_content)

Pair(e, ph, d) == [event |-> KEY_EVENTS[e], phase |-> ph, doc |-> d]

Extraction(pair, n) == [source_document |-> <<pair.phase, pair.doc>>, event |-> pair.event, n |-> n]

\* the list extract_from_document_parallel returns with k results
ExtractionsOf(pair, k) == [n \in 1..k |-> Extraction(pair, n)]

RECURSIVE Concat(_)
Concat(seqs) == IF seqs = <<>> THEN <<>> ELSE Head(seqs) \o Concat(Tail(seqs))

\* the (document, event) pairs the loops reach the extraction call with, in
\* the order of the loops
PairsToProcess ==
    Concat([e \in 1..Len(KEY_EVENTS) |->
        Concat([d \in 1..Len(gutenberg_data) |->
            IF Skipped("gutenberg", gutenberg_data[d]) THEN <<>>
            ELSE <<Pair(e, "gutenberg", d)>>])
        \o Concat([d \in 1..Len(loc_data) |->
            IF Skipped("loc", loc_data[d]) THEN <<>>
            ELSE <<Pair(e, "loc", d)>>])])

\* what an earlier complete run over the same datasets left on disk when
\* every extraction call returned k results
EarlierRun(k) == Concat([i \in 1..Len(PairsToProcess) |-> ExtractionsOf(PairsToProcess[i], k)])

MainInit ==
    /\ gutenberg_data \in Datasets(MaxBooks)
    /\ loc_data \in Datasets(MaxLocDocuments)
    /\ extractor_client \in BOOLEAN
    /\ output_file \in {File("absent", <<>>), File("unreadable", <<>>)}
                           \cup {File("list", EarlierRun(k)) : k \in ResultCounts}
    /\ existing = <<>>
    /\ all_extractions = <<>>
    /\ processed_pairs = {}
    /\ event_idx = 1
    /\ phase = "gutenberg"
    /\ doc_idx = 1
    /\ main_pc = "start"
    /\ extractions = <<>>
    /\ extract_calls = <<>>
    /\ ChunkerIdle /\ FilterIdle /\ StatIdle /\ RetryIdle /\ PoolIdle /\ ComparatorIdle /\ ExperimentIdle /\ OthersIdle

\* if not extractor.client: return
ClientUnavailable ==
    /\ main_pc = "start"
    /\ ~extractor_client
    /\ main_pc' = "returned"
    /\ UNCHANGED <<gutenberg_data, loc_data, extractor_client, output_file, existing,
                   all_extractions, processed_pairs, event_idx, phase, doc_idx,
                   extractions, extract_calls,
                   chunkerVars, filterVars, statVars, retryVars, poolVars, comparatorVars, experimentVars, otherVars>>

\* mutant: the loaded list is dropped
LoadedDropped(file) == <<>>

\* all_extractions after the block that loads the existing results
Loaded(file) == IF file.state = "list" THEN file.content ELSE <<>>

\* all_extractions = [], processed_pairs = set(), and the load of the
\* existing file: the loop over its entries adds nothing to processed_pairs
LoadExisting ==
    /\ main_pc = "start"
    /\ extractor_client
    /\ existing' = IF output_file.state = "list" THEN output_file.content ELSE <<>>
    /\ all_extractions' = Loaded(output_file)
    /\ processed_pairs' = {}
    /\ event_idx' = 1
    /\ phase' = "gutenberg"
    /\ doc_idx' = 1
    /\ main_pc' = "loop"
    /\ UNCHANGED <<gutenberg_data, loc_data, extractor_client, output_file,
                   extractions, extract_calls,
                   chunkerVars, filterVars, statVars, retryVars, poolVars, comparatorVars, experimentVars, otherVars>>

InEvents == event_idx <= Len(KEY_EVENTS)

AtDocument == InEvents /\ doc_idx <= Len(Docs(phase))

\* the inner loop is exhausted: the LoC loop follows the Gutenberg loop, the
\* next event follows the LoC loop
EndOfDocuments ==
    /\ main_pc = "loop"
    /\ InEvents
    /\ doc_idx > Len(Docs(phase))
    /\ IF phase = "gutenberg"
       THEN phase' = "loc" /\ UNCHANGED event_idx
       ELSE phase' = "gutenberg" /\ event_idx' = event_idx + 1
    /\ doc_idx' = 1
    /\ UNCHANGED <<gutenberg_data, loc_data, extractor_client, output_file, existing,
                   all_extractions, processed_pairs, main_pc, extractions, extract_calls,
                   chunkerVars, filterVars, statVars, retryVars, poolVars, comparatorVars, experimentVars, otherVars>>

\* [SKIP]: no content
SkipDocument ==
    /\ main_pc = "loop"
    /\ AtDocument
    /\ Skipped(phase, Docs(phase)[doc_idx])
    /\ doc_idx' = doc_idx + 1
    /\ UNCHANGED <<gutenberg_data, loc_data, extractor_client, output_file, existing,
                   all_extractions, processed_pairs, event_idx, phase, main_pc,
                   extractions, extract_calls,
                   chunkerVars, filterVars, statVars, retryVars, poolVars, comparatorVars, experimentVars, otherVars>>

\* try: extractor.extract_from_document_parallel(...) is called; there is no
\* test of processed_pairs before it
CallExtraction ==
    /\ main_pc = "loop"
    /\ AtDocument
    /\ ~Skipped(phase, Docs(phase)[doc_idx])
    /\ extract_calls' = Append(extract_calls, Pair(event_idx, phase, doc_idx))
    /\ main_pc' = "extract"
    /\ UNCHANGED <<gutenberg_data, loc_data, extractor_client, output_file, existing,
                   all_extractions, processed_pairs, event_idx, phase, doc_idx,
                   extractions,
                   chunkerVars, filterVars, statVars, retryVars, poolVars, comparatorVars, experimentVars, otherVars>>

\* the call returns its list: all_extractions.extend(extractions)
ExtractionReturns ==
    /\ main_pc = "extract"
    /\ \E k \in ResultCounts :
        /\ extractions' = ExtractionsOf(Pair(event_idx, phase, doc_idx), k)
        /\ all_extractions' = all_extractions \o extractions'
    /\ main_pc' = "save"
    /\ UNCHANGED <<gutenberg_data, loc_data, extractor_client, output_file, existing,
                   processed_pairs, event_idx, phase, doc_idx, extract_calls,
                   chunkerVars, filterVars, statVars, retryVars, poolVars, comparatorVars, experimentVars, otherVars>>

\* mutant: only the results of the last document are written
DumpedLastOnly == File("list", extractions)

\* json.dump(all_extractions, f) into the file opened with 'w'
Dumped == File("list", all_extractions)

\* the incremental save after the document, then the next document
SaveIncrementally ==
    /\ main_pc = "save"
    /\ output_file' = Dumped
    /\ doc_idx' = doc_idx + 1
    /\ main_pc' = "loop"
    /\ UNCHANGED <<gutenberg_data, loc_data, extractor_client, existing,
                   all_extractions, processed_pairs, event_idx, phase,
                   extractions, extract_calls,
                   chunkerVars, filterVars, statVars, retryVars, poolVars, comparatorVars, experimentVars, otherVars>>

\* mutant: the error handler throws away what the run has collected
ExtractionFailsDroppingAll ==
    /\ main_pc = "extract"
    /\ all_extractions' = existing
    /\ doc_idx' = doc_idx + 1
    /\ main_pc' = "loop"
    /\ UNCHANGED <<gutenberg_data, loc_data, extractor_client, output_file, existing,
                   processed_pairs, event_idx, phase,
                   extractions, extract_calls,
                   chunkerVars, filterVars, statVars, retryVars, poolVars, comparatorVars, experimentVars, otherVars>>

\* except Exception: [ERROR], continue, for an exception raised by the
\* extraction call
ExtractionFails ==
    /\ main_pc = "extract"
    /\ doc_idx' = doc_idx + 1
    /\ main_pc' = "loop"
    /\ UNCHANGED <<gutenberg_data, loc_data, extractor_client, output_file, existing,
                   all_extractions, processed_pairs, event_idx, phase,
                   extractions, extract_calls,
                   chunkerVars, filterVars, statVars, retryVars, poolVars, comparatorVars, experimentVars, otherVars>>

\* except Exception: [ERROR], continue, for an exception raised by the save
\* inside the same try block, after all_extractions.extend: open(..., 'w')
\* raises and the file is as it was, or json.dump raises and the file is left
\* partly written
SaveFails ==
    /\ main_pc = "save"
    /\ output_file' \in {output_file, File("unreadable", <<>>)}
    /\ doc_idx' = doc_idx + 1
    /\ main_pc' = "loop"
    /\ UNCHANGED <<gutenberg_data, loc_data, extractor_client, existing,
                   all_extractions, processed_pairs, event_idx, phase,
                   extractions, extract_calls,
                   chunkerVars, filterVars, statVars, retryVars, poolVars, comparatorVars, experimentVars, otherVars>>

\* mutant: the interrupt propagates without the save
InterruptDumpNothing == output_file

\* what the except KeyboardInterrupt block leaves on disk
InterruptDump == File("list", all_extractions)

\* except KeyboardInterrupt, raised inside the try block of a document (in
\* the extraction call, or after it in extend or in the save): the list is
\* written and the interrupt raised again, out of main
InterruptInDocument ==
    /\ main_pc \in {"extract", "save"}
    /\ output_file' = InterruptDump
    /\ main_pc' = "interrupted_in_document"
    /\ UNCHANGED <<gutenberg_data, loc_data, extractor_client, existing,
                   all_extractions, processed_pairs, event_idx, phase, doc_idx,
                   extractions, extract_calls,
                   chunkerVars, filterVars, statVars, retryVars, poolVars, comparatorVars, experimentVars, otherVars>>

\* KeyboardInterrupt outside the try blocks, between two documents: no
\* handler, the interrupt leaves main at once
InterruptBetweenDocuments ==
    /\ main_pc = "loop"
    /\ main_pc' = "interrupted"
    /\ UNCHANGED <<gutenberg_data, loc_data, extractor_client, output_file, existing,
                   all_extractions, processed_pairs, event_idx, phase, doc_idx,
                   extractions, extract_calls,
                   chunkerVars, filterVars, statVars, retryVars, poolVars, comparatorVars, experimentVars, otherVars>>

\* [STEP 4]: the final save after the last event
SaveResults ==
    /\ main_pc = "loop"
    /\ ~InEvents
    /\ output_file' = Dumped
    /\ main_pc' = "returned"
    /\ UNCHANGED <<gutenberg_data, loc_data, extractor_client, existing,
                   all_extractions, processed_pairs, event_idx, phase, doc_idx,
                   extractions, extract_calls,
                   chunkerVars, filterVars, statVars, retryVars, poolVars, comparatorVars, experimentVars, otherVars>>

MainNext ==
    \/ ClientUnavailable \/ LoadExisting \/ EndOfDocuments \/ SkipDocument
    \/ CallExtraction \/ ExtractionReturns \/ SaveIncrementally \/ ExtractionFails
    \/ InterruptInDocument \/ InterruptBetweenDocuments \/ SaveResults

SpecMain == MainInit /\ [][MainNext]_vars

\* the run on a file system whose writes can fail
MainWriteFailsNext == MainNext \/ SaveFails

SpecMainWriteFails == MainInit /\ [][MainWriteFailsNext]_vars

(***************************************************************************)
(* Properties of the extraction run.                                       *)
(***************************************************************************)
\* the extractions this run has added after the loaded ones
Produced == From(all_extractions, Len(existing) + 1)

\* the pair an extraction was made for
PairOf(x) == [event |-> x.event, phase |-> x.source_document[1], doc |-> x.source_document[2]]

\* how many extractions of this run were made for a pair
CountFor(pair) == Cardinality({a \in 1..Len(Produced) : PairOf(Produced[a]) = pair})

\* the extractions of this run are the results of the extraction calls made
\* so far, in the order of the calls, the results of one call in their own
\* order
ProducedInCallOrder ==
    Produced = Concat([i \in 1..Len(extract_calls) |->
                          ExtractionsOf(extract_calls[i], CountFor(extract_calls[i]))])

C16_InterruptSavesFirst ==
    main_pc = "interrupted_in_document" =>
        /\ output_file = File("list", all_extractions)
        /\ IsPrefix(existing, all_extractions)
        /\ ProducedInCallOrder
        /\ ~ENABLED MainNext

\* the interrupt came in the second extraction call, after a first document
\* with results, and left documents unprocessed
C16_Witness ==
    /\ main_pc = "interrupted_in_document"
    /\ Len(extract_calls) = 2
    /\ Len(PairsToProcess) > 2
    /\ Produced # <<>>
    /\ output_file = File("list", all_extractions)

\* C17: processed_pairs is empty at every moment; the extraction calls of a
\* run are the pairs of the datasets in loop order whatever the file held,
\* all of them once the run has returned; the run leaves the loaded entries
\* followed by its own results, so a run that produces what the file already
\* held leaves every entry twice.
C17_NoResume ==
    /\ processed_pairs = {}
    /\ IsPrefix(extract_calls, PairsToProcess)
    /\ (main_pc = "returned" /\ extractor_client) =>
          /\ extract_calls = PairsToProcess
          /\ output_file = File("list", existing \o Produced)
          /\ Produced = existing => output_file.content = existing \o existing

\* the step of the except Exception handler keeps the run in the same event
\* and the same loop, at the next document
ContinuesWithNextDocument ==
    /\ main_pc' = "loop"
    /\ doc_idx' = doc_idx + 1
    /\ event_idx' = event_idx
    /\ phase' = phase

\* the list in memory holds no extraction of the document being processed
NothingOfThisDocument ==
    \A a \in 1..Len(Produced) : PairOf(Produced[a]) # Pair(event_idx, phase, doc_idx)

\* C30 as stated: whichever statement of the try block raised the exception,
\* the handler leaves all_extractions and the file as they were before the
\* document and the run goes on with the next document of the event.
C30_ExceptionLeavesNoTrace ==
    [][(ExtractionFails \/ SaveFails) =>
          /\ NothingOfThisDocument
          /\ all_extractions' = all_extractions
          /\ output_file' = output_file
          /\ ContinuesWithNextDocument]_vars

\* C30, amended: an exception raised by the extraction call leaves
\* all_extractions and the file as they were before the document; an
\* exception raised by the save leaves in all_extractions the results of the
\* document, appended to what it held before, and the file as it was or
\* partly written; in both cases the run goes on with the next document of
\* the event.
C30_ExceptionSkipsDocument ==
    [][/\ ExtractionFails =>
            /\ NothingOfThisDocument
            /\ all_extractions' = all_extractions
            /\ output_file' = output_file
            /\ ContinuesWithNextDocument
       /\ SaveFails =>
            /\ all_extractions' = all_extractions
            /\ \E k \in 0..Len(all_extractions) :
                  /\ extractions = From(all_extractions, k + 1)
                  /\ \A a \in 1..Len(extractions) :
                        PairOf(extractions[a]) = Pair(event_idx, phase, doc_idx)
            /\ output_file' \in {output_file, File("unreadable", <<>>)}
            /\ ContinuesWithNextDocument]_vars

\* the save of the first document of an event failed with the document's
\* results in memory, and the second document of that event is being
\* processed
C30_Witness ==
    /\ main_pc = "extract"
    /\ Len(extract_calls) = 2
    /\ extract_calls[1].event = extract_calls[2].event
    /\ Produced # <<>>
    /\ output_file.state # "list"

\* a second run over a file that held one result per pair, itself getting
\* one result per pair
C17_Witness ==
    /\ main_pc = "returned"
    /\ Len(existing) = 4
    /\ Produced = existing
    /\ output_file.content = existing \o existing
    /\ Len(extract_calls) = 4

(***************************************************************************)
(* ExtractionComparator: one call of create_comparison_pairs on a list of  *)
(* extractions.  An extraction is its event id ("" when the key is absent  *)
(* or empty), its author and the number of its claims; it is named in a    *)
(* pair by its place in self.extractions.  The other fields of a pair are  *)
(* copies of fields of its two extractions and of the event id.            *)
(***************************************************************************)
MaxExtractionList == 3

Ext(event, author, claims) == [event |-> event, author |-> author, claims |-> claims]

AuthorPool ==
    { <<>>,
      <<"A", " ", "L", "i", "N", "c", "o", "l", "n">>,
      <<"N", "i", "c", "o", "l", "a", "y">> }

ExtractionPool ==
    {Ext(e, a, c) : e \in {"", "fort_sumter", "gettysburg_address"}, a \in AuthorPool, c \in {0, 1}}

\* 'lincoln' in author or 'abraham lincoln' in author, on the lowered author
IsLincoln(author) ==
    \/ Contains(Lower(author), <<"l", "i", "n", "c", "o", "l", "n">>)
    \/ Contains(Lower(author),
                <<"a", "b", "r", "a", "h", "a", "m", " ", "l", "i", "n", "c", "o", "l", "n">>)

\* grouped[event_id].append(extraction)
AddToGroup(grouped, e, i) ==
    IF \E g \in 1..Len(grouped) : grouped[g].event_id = e
    THEN [g \in 1..Len(grouped) |->
            IF grouped[g].event_id = e
            THEN [grouped[g] EXCEPT !.members = Append(@, i)]
            ELSE grouped[g]]
    ELSE Append(grouped, [event_id |-> e, members |-> <<i>>])

RECURSIVE GroupFrom(_, _, _)
\* the loop of group_by_event from extraction i on
GroupFrom(exts, i, grouped) ==
    IF i > Len(exts) THEN grouped
    ELSE GroupFrom(exts, i + 1,
                   IF exts[i].event = "" THEN grouped
                   ELSE AddToGroup(grouped, exts[i].event, i))

\* the groups in the order their events first appear, members in list order
group_by_event(exts) == GroupFrom(exts, 1, <<>>)

separate_lincoln_and_others(exts, members) ==
    [lincoln |-> SelectSeq(members, LAMBDA i : IsLincoln(exts[i].author)),
     others |-> SelectSeq(members, LAMBDA i : ~IsLincoln(exts[i].author))]

\* mutant: only the first Lincoln extraction of the event is paired
PairsOfGroupFirstLincolnOnly(exts, group) ==
    LET sep == separate_lincoln_and_others(exts, group.members) IN
    Concat([l \in 1..Min(1, Len(sep.lincoln)) |->
        Concat([o \in 1..Len(sep.others) |->
            IF exts[sep.lincoln[l]].claims > 0 /\ exts[sep.others[o]].claims > 0
            THEN << [event_id |-> group.event_id,
                     lincoln_extraction |-> sep.lincoln[l],
                     other_extraction |-> sep.others[o]] >>
            ELSE <<>>])])

\* the two nested loops over one event's extractions
PairsOfGroup(exts, group) ==
    LET sep == separate_lincoln_and_others(exts, group.members) IN
    Concat([l \in 1..Len(sep.lincoln) |->
        Concat([o \in 1..Len(sep.others) |->
            IF exts[sep.lincoln[l]].claims > 0 /\ exts[sep.others[o]].claims > 0
            THEN << [event_id |-> group.event_id,
                     lincoln_extraction |-> sep.lincoln[l],
                     other_extraction |-> sep.others[o]] >>
            ELSE <<>>])])

create_comparison_pairs(exts) ==
    LET grouped == group_by_event(exts) IN
    Concat([g \in 1..Len(grouped) |-> PairsOfGroup(exts, grouped[g])])

ComparatorInit ==
    /\ self_extractions \in UNION {[1..n -> ExtractionPool] : n \in 0..MaxExtractionList}
    /\ pairs = <<>>
    /\ comparator_pc = "call"
    /\ ChunkerIdle /\ FilterIdle /\ StatIdle /\ RetryIdle /\ PoolIdle /\ MainIdle
    /\ ExperimentIdle /\ OthersIdle

CreateComparisonPairs ==
    /\ comparator_pc = "call"
    /\ pairs' = create_comparison_pairs(self_extractions)
    /\ comparator_pc' = "returned"
    /\ UNCHANGED <<self_extractions, chunkerVars, filterVars, statVars, retryVars,
                   poolVars, mainVars, experimentVars, otherVars>>

ComparatorNext == CreateComparisonPairs

SpecComparator == ComparatorInit /\ [][ComparatorNext]_vars

(***************************************************************************)
(* Properties of the comparator.                                           *)
(***************************************************************************)
\* extraction i is a Lincoln extraction and extraction j an extraction of
\* another author for the same event
Combination(i, j) ==
    /\ self_extractions[i].event # ""
    /\ self_extractions[i].event = self_extractions[j].event
    /\ IsLincoln(self_extractions[i].author)
    /\ ~IsLincoln(self_extractions[j].author)

\* the pairs made of extractions i and j
PairsFor(i, j) ==
    {k \in 1..Len(pairs) :
        pairs[k].lincoln_extraction = i /\ pairs[k].other_extraction = j}

\* every pair is a combination, under the event of its extractions
PairsAreCombinations ==
    \A k \in 1..Len(pairs) :
        /\ Combination(pairs[k].lincoln_extraction, pairs[k].other_extraction)
        /\ pairs[k].event_id = self_extractions[pairs[k].lincoln_extraction].event

BothHaveClaims(i, j) == self_extractions[i].claims > 0 /\ self_extractions[j].claims > 0

\* C18 as stated: the pairs returned are exactly the combinations of a
\* Lincoln extraction and another author's extraction of one event, one pair
\* for each.
C18_ExactCrossProduct ==
    comparator_pc = "returned" =>
        /\ PairsAreCombinations
        /\ \A i, j \in 1..Len(self_extractions) :
              Combination(i, j) => Cardinality(PairsFor(i, j)) = 1

\* C18, amended: the pairs returned are exactly the combinations in which
\* both extractions have claims, one pair for each; a combination in which
\* an extraction has no claims gives no pair.
C18_CrossProductOfThoseWithClaims ==
    comparator_pc = "returned" =>
        /\ PairsAreCombinations
        /\ \A i, j \in 1..Len(self_extractions) :
              Cardinality(PairsFor(i, j)) =
                  IF Combination(i, j) /\ BothHaveClaims(i, j) THEN 1 ELSE 0

\* two Lincoln extractions with claims paired with one other extraction of
\* the same event
C18_Witness ==
    /\ comparator_pc = "returned"
    /\ Len(pairs) = 2
    /\ pairs[1].other_extraction = pairs[2].other_extraction
    /\ pairs[1].lincoln_extraction # pairs[2].lincoln_extraction

(***************************************************************************)
(* validation_experiments.experiment_2_self_consistency: every sample pair *)
(* is judged num_runs times; a pair with at least one score gets its       *)
(* statistics, and the overall statistics label the judge.                 *)
(*                                                                         *)
(* sample_pairs is the number of pairs.  A standard deviation that is      *)
(* compared with a threshold is taken in hundredths, rounded down; with    *)
(* the scores of ScorePool no mean of standard deviations lies within a    *)
(* hundredth per pair of a threshold without being equal to it.            *)
(***************************************************************************)
MaxSamplePairs == 2
MaxJudgeRuns == 2

\* the consistency scores a judge call can return here, of the 0..100
ScorePool == {50, 60, 70}

\* judge.compare_accounts returns a result with its score, or None
JudgeOutcomes ==
    {[result |-> TRUE, consistency_score |-> sc] : sc \in ScorePool}
        \cup {[result |-> FALSE, consistency_score |-> 0]}

\* 'high' if mean < 5 else 'medium' if mean < 10 else 'low'
high_below == 5
medium_below == 10

RECURSIVE ISqrtIn(_, _, _)
\* the largest k in lo..hi with k * k <= n
ISqrtIn(n, lo, hi) ==
    IF lo = hi THEN lo
    ELSE LET mid == (lo + hi + 1) \div 2 IN
         IF mid * mid <= n THEN ISqrtIn(n, mid, hi) ELSE ISqrtIn(n, lo, mid - 1)

\* a standard deviation in hundredths, rounded down
Hundredths(sd) == ISqrtIn((sd.sqrt_of[1] * 10000) \div sd.sqrt_of[2], 0, 10000)

\* pair_scores: the scores of the runs that returned a result, in run order
PairScores(outcome) ==
    LET returned == SelectSeq(outcome, LAMBDA o : o.result)
    IN  [i \in 1..Len(returned) |-> returned[i].consistency_score]

\* pair_stats, without the names of the pair
PairStats(pair_scores) ==
    [scores |-> pair_scores,
     mean |-> Mean(pair_scores),
     std_dev |-> IF Len(pair_scores) > 1 THEN Sqrt(SampleVariance(pair_scores))
                 ELSE Sqrt(Zero),
     variance |-> IF Len(pair_scores) > 1 THEN SampleVariance(pair_scores) ELSE Zero,
     min |-> SetMin(Elements(pair_scores)),
     max |-> SetMax(Elements(pair_scores)),
     range |-> SetMax(Elements(pair_scores)) - SetMin(Elements(pair_scores))]

\* all_std_devs = [r['std_dev'] for r in all_pair_results], in hundredths
AllStdDevs(pair_results) == [i \in 1..Len(pair_results) |-> Hundredths(pair_results[i].std_dev)]

\* statistics.mean(all_std_devs) < threshold, for a list that is not empty
MeanBelow(std_devs, threshold) == Sum(std_devs, 1) < threshold * 100 * Len(std_devs)

\* the judge_reliability expression of line 350, evaluated on a list that is
\* not empty
Reliability(std_devs) ==
    IF MeanBelow(std_devs, high_below) THEN "high"
    ELSE IF MeanBelow(std_devs, medium_below) THEN "medium"
    ELSE "low"

\* the construction of experiment_results: mean_std_dev, mean_range,
\* max_std_dev and min_std_dev are guarded by if all_std_devs else 0.0,
\* judge_reliability calls statistics.mean(all_std_devs) unguarded, and
\* statistics.mean raises StatisticsError on an empty list
OverallStatistics(pair_results) ==
    LET all_std_devs == AllStdDevs(pair_results) IN
    IF all_std_devs = <<>> THEN Raises("StatisticsError")
    ELSE Returns([sample_size |-> sample_pairs,
                  num_runs_per_pair |-> num_runs,
                  mean_std_dev |-> Rat(Sum(all_std_devs, 1), Len(all_std_devs)),
                  max_std_dev |-> SetMax(Elements(all_std_devs)),
                  min_std_dev |-> SetMin(Elements(all_std_devs)),
                  judge_reliability |-> Reliability(all_std_devs)])

ExperimentInit ==
    /\ sample_pairs \in 0..MaxSamplePairs
    /\ num_runs \in 1..MaxJudgeRuns
    /\ pair_idx = 0
    /\ all_pair_results = <<>>
    /\ experiment_pc = "pairs"
    /\ experiment_results = <<>>
    /\ ChunkerIdle /\ FilterIdle /\ StatIdle /\ RetryIdle /\ PoolIdle /\ MainIdle
    /\ ComparatorIdle /\ OthersIdle

\* one round of the loop over sample_pairs: num_runs judge calls, each
\* returning a result or None, and the pair's statistics when it has a score
JudgePair ==
    /\ experiment_pc = "pairs"
    /\ pair_idx < sample_pairs
    /\ \E outcome \in [1..num_runs -> JudgeOutcomes] :
        all_pair_results' =
            IF PairScores(outcome) # <<>>
            THEN Append(all_pair_results, PairStats(PairScores(outcome)))
            ELSE all_pair_results
    /\ pair_idx' = pair_idx + 1
    /\ UNCHANGED <<sample_pairs, num_runs, experiment_pc, experiment_results,
                   chunkerVars, filterVars, statVars, retryVars, poolVars, mainVars,
                   comparatorVars, otherVars>>

\* after the last pair: the overall statistics, returned or failing
FinishExperiment ==
    /\ experiment_pc = "pairs"
    /\ pair_idx = sample_pairs
    /\ experiment_results' = OverallStatistics(all_pair_results)
    /\ experiment_pc' = "done"
    /\ UNCHANGED <<sample_pairs, num_runs, pair_idx, all_pair_results,
                   chunkerVars, filterVars, statVars, retryVars, poolVars, mainVars,
                   comparatorVars, otherVars>>

ExperimentNext == JudgePair \/ FinishExperiment

SpecExperiment == ExperimentInit /\ [][ExperimentNext]_vars

(***************************************************************************)
(* Properties of the self-consistency experiment.                          *)
(***************************************************************************)
\* C19: whatever the sample pairs and whichever judge calls fail, the
\* experiment completes with a result, whose judge_reliability is 'high'
\* when the mean of the pairs' standard deviations is below 5, 'medium' when
\* it is below 10 and 'low' otherwise.
C19_CompletesWithLabel ==
    experiment_pc = "done" =>
        /\ experiment_results.raised = "no"
        /\ experiment_results.value.judge_reliability =
              IF MeanBelow(AllStdDevs(all_pair_results), 5) THEN "high"
              ELSE IF MeanBelow(AllStdDevs(all_pair_results), 10) THEN "medium"
              ELSE "low"

(***************************************************************************)
(* DocumentChunker.combine_chunks                                          *)
(***************************************************************************)
MaxCombineChunks == 3
MaxCombineTextLen == 2
MaxLength == 10

\* "\n\n---\n\n"
separator == <<NL, NL, "-", "-", "-", NL, NL>>

\* the for loop over the chunks, from chunk i on, with its break
RECURSIVE CombineLoop(_, _, _, _)
CombineLoop(cs, i, so_far, ml) ==
    IF i > Len(cs) THEN so_far
    ELSE IF Len(so_far) + Len(cs[i].text) > ml THEN so_far
    ELSE CombineLoop(cs, i + 1,
                     IF so_far # <<>> THEN so_far \o separator \o cs[i].text ELSE cs[i].text,
                     ml)

combine_chunks(cs, ml) == CombineLoop(cs, 1, <<>>, ml)

\* chunk texts of every length up to the bound
CombineTexts == {[i \in 1..n |-> "a"] : n \in 0..MaxCombineTextLen}

CombineInit ==
    /\ chunks_to_combine \in ListsUpTo({[text |-> t] : t \in CombineTexts}, MaxCombineChunks)
    /\ max_length \in 0..MaxLength
    /\ combined = <<>>
    /\ combine_pc = "call"
    /\ ChunkerIdle /\ FilterIdle /\ StatIdle /\ RetryIdle /\ PoolIdle /\ MainIdle
    /\ ComparatorIdle /\ ExperimentIdle /\ FetchIdle /\ JudgeIdle /\ ValidationIdle
    /\ SequentialIdle

CombineChunks ==
    /\ combine_pc = "call"
    /\ combined' = combine_chunks(chunks_to_combine, max_length)
    /\ combine_pc' = "returned"
    /\ UNCHANGED <<chunks_to_combine, max_length, chunkerVars, filterVars, statVars,
                   retryVars, poolVars, mainVars, comparatorVars, experimentVars,
                   fetchVars, judgeVars, validationVars, sequentialVars>>

CombineNext == CombineChunks

SpecCombine == CombineInit /\ [][CombineNext]_vars

\* C21: the text returned by combine_chunks, separators included, is at most
\* max_length characters long.
C21_CombinedWithinMaxLength ==
    combine_pc = "returned" => Len(combined) <= max_length

(***************************************************************************)
(* LoCScraperImproved._fetch_with_retry: one call.  gets is the list of    *)
(* GET requests sent, fetch_sleeps the list of time.sleep arguments in     *)
(* seconds, the 2 s pause after a 200 included.                            *)
(***************************************************************************)
\* for attempt in range(3)
fetch_attempts == 3
polite_pause == 2
forbidden_pause == 3

FetchInit ==
    /\ url_is_item \in BOOLEAN
    /\ fetch_attempt = 0
    /\ fetch_pc = "try"
    /\ gets = <<>>
    /\ fetch_sleeps = <<>>
    /\ cookies_cleared = 0
    /\ fetch_ret = "none"
    /\ ChunkerIdle /\ FilterIdle /\ StatIdle /\ RetryIdle /\ PoolIdle /\ MainIdle
    /\ ComparatorIdle /\ ExperimentIdle /\ CombineIdle /\ JudgeIdle /\ ValidationIdle
    /\ SequentialIdle

\* the frame of every step of the call
FetchFrame ==
    UNCHANGED <<url_is_item, chunkerVars, filterVars, statVars, retryVars, poolVars,
                mainVars, comparatorVars, experimentVars, combineVars, judgeVars,
                validationVars, sequentialVars>>

\* mutant: an HTTPError raised in the try block leaves the call at once
ExceptRequestExceptionRaisingAtOnce(att) == "raise"

\* except requests.RequestException as e: raise on the last attempt, otherwise
\* sleep 2 ** attempt and go round the loop
ExceptRequestException(att) == IF att = fetch_attempts - 1 THEN "raise" ELSE "sleep"

\* the end of an iteration that neither returned nor raised out of the call
NextAttempt(slept) ==
    /\ fetch_sleeps' = fetch_sleeps \o slept
    /\ fetch_attempt' = fetch_attempt + 1
    /\ IF fetch_attempt + 1 < fetch_attempts
       THEN fetch_pc' = "try" /\ fetch_ret' = "none"
       ELSE fetch_pc' = "done" /\ fetch_ret' = "RequestException: Failed to fetch"

\* an exception of the requests library raised inside the try block
Caught(exc) ==
    IF ExceptRequestException(fetch_attempt) = "raise"
    THEN /\ fetch_pc' = "done"
         /\ fetch_ret' = exc
         /\ UNCHANGED <<fetch_attempt, fetch_sleeps>>
    ELSE NextAttempt(<<Pow2(fetch_attempt)>>)

\* status 200: the pause, then the response is returned
Get200 ==
    /\ fetch_pc = "try"
    /\ gets' = Append(gets, "url")
    /\ fetch_sleeps' = Append(fetch_sleeps, polite_pause)
    /\ fetch_pc' = "done"
    /\ fetch_ret' = "response"
    /\ UNCHANGED <<fetch_attempt, cookies_cleared>>
    /\ FetchFrame

\* status 403 on the first two attempts: the cookies are cleared and, after
\* 3 s, the loop goes on
Get403Early ==
    /\ fetch_pc = "try"
    /\ fetch_attempt < 2
    /\ gets' = Append(gets, "url")
    /\ cookies_cleared' = cookies_cleared + 1
    /\ NextAttempt(<<forbidden_pause>>)
    /\ FetchFrame

\* status 403 on the last attempt: for an item or resource URL the JSON form
\* is fetched once and returned if it answers 200; otherwise HTTPError
Get403Last ==
    /\ fetch_pc = "try"
    /\ fetch_attempt >= 2
    /\ UNCHANGED cookies_cleared
    /\ \/ /\ url_is_item
          /\ gets' = gets \o <<"url", "json_url">>
          /\ \/ /\ fetch_pc' = "done"
                /\ fetch_ret' = "json_response"
                /\ UNCHANGED <<fetch_attempt, fetch_sleeps>>
             \/ Caught("HTTPError: 403 Forbidden")
       \/ /\ ~url_is_item
          /\ gets' = Append(gets, "url")
          /\ Caught("HTTPError: 403 Forbidden")
    /\ FetchFrame

\* status 404: raise requests.HTTPError, inside the try block
Get404 ==
    /\ fetch_pc = "try"
    /\ gets' = Append(gets, "url")
    /\ Caught("HTTPError: 404 Not Found")
    /\ UNCHANGED cookies_cleared
    /\ FetchFrame

\* another status: response.raise_for_status() raises HTTPError for a 4xx or
\* 5xx code and does nothing for the others, and the loop goes on at once
GetOtherStatus ==
    /\ fetch_pc = "try"
    /\ gets' = Append(gets, "url")
    /\ \/ Caught("HTTPError: 500")
       \/ NextAttempt(<<>>)
    /\ UNCHANGED cookies_cleared
    /\ FetchFrame

\* session.get itself raises (connection error, timeout)
GetRaises ==
    /\ fetch_pc = "try"
    /\ gets' = Append(gets, "url")
    /\ Caught("ConnectionError")
    /\ UNCHANGED cookies_cleared
    /\ FetchFrame

FetchNext == Get200 \/ Get403Early \/ Get403Last \/ Get404 \/ GetOtherStatus \/ GetRaises

SpecFetch == FetchInit /\ [][FetchNext]_vars

\* C22: a 404 answer is raised to the caller by the iteration that received
\* it: the call ends with the HTTPError after that GET, without another GET
\* and without a backoff sleep.
C22_NotFoundSurfacedAtOnce ==
    [][Get404 =>
          /\ fetch_pc' = "done"
          /\ fetch_ret' = "HTTPError: 404 Not Found"
          /\ fetch_sleeps' = fetch_sleeps]_vars

(***************************************************************************)
(* llm_judge/main.py: one run of main from the comparison pairs on.       *)
(* judged is the list of the pairs handed to judge.compare_accounts so    *)
(* far, all_results the list of result dictionaries.                       *)
(***************************************************************************)
MaxJudgePairs == 3

JudgeEvents == {"election_night_1860", "fort_sumter"}

\* the pairs create_comparison_pairs returned: pair k of the list, of an event
ComparisonPairs(events) == [k \in 1..Len(events) |-> [event_id |-> events[k], k |-> k]]

\* the keys of pairs_by_event in insertion order: the events in the order of
\* their first pair
RECURSIVE EventOrder(_, _, _)
EventOrder(ps, i, seen) ==
    IF i > Len(ps) THEN <<>>
    ELSE IF ps[i].event_id \in seen THEN EventOrder(ps, i + 1, seen)
    ELSE <<ps[i].event_id>> \o EventOrder(ps, i + 1, seen \cup {ps[i].event_id})

\* pairs_by_event[event_id]
EventPairs(ps, event_id) == SelectSeq(ps, LAMBDA p : p.event_id = event_id)

\* mutant: only the pairs of the first event are compared
ProcessingOrderFirstEventOnly(ps) ==
    IF ps = <<>> THEN <<>> ELSE EventPairs(ps, ps[1].event_id)

\* the pairs in the order the two nested loops reach them
ProcessingOrder(ps) ==
    LET keys == EventOrder(ps, 1, {})
    IN  Concat([e \in 1..Len(keys) |-> EventPairs(ps, keys[e])])

\* result_dict
ResultDict(pair) == [event_id |-> pair.event_id, k |-> pair.k, consistency_score |-> 50]

\* calculate_consistency_metrics(all_results), as far as it counts the results
Metrics(res) == [total_comparisons |-> Len(res)]

JudgeInit ==
    /\ judge_pairs \in {ComparisonPairs(ev) : ev \in ListsUpTo(JudgeEvents, MaxJudgePairs)}
    /\ judge_client \in BOOLEAN
    /\ judge_idx = 0
    /\ all_results = <<>>
    /\ failed_count = 0
    /\ judged = <<>>
    /\ results_file = File("absent", <<>>)
    /\ stats_file = File("absent", <<>>)
    /\ judge_pc = "pairs_created"
    /\ ChunkerIdle /\ FilterIdle /\ StatIdle /\ RetryIdle /\ PoolIdle /\ MainIdle
    /\ ComparatorIdle /\ ExperimentIdle /\ CombineIdle /\ FetchIdle /\ ValidationIdle
    /\ SequentialIdle

JudgeFrame ==
    UNCHANGED <<judge_pairs, judge_client, chunkerVars, filterVars, statVars, retryVars,
                poolVars, mainVars, comparatorVars, experimentVars, combineVars, fetchVars,
                validationVars, sequentialVars>>

\* if not pairs: sys.exit(1)
NoPairs ==
    /\ judge_pc = "pairs_created"
    /\ judge_pairs = <<>>
    /\ judge_pc' = "exit_1"
    /\ UNCHANGED <<judge_idx, all_results, failed_count, judged, results_file, stats_file>>
    /\ JudgeFrame

\* if not judge.client: sys.exit(1)
JudgeUnavailable ==
    /\ judge_pc = "pairs_created"
    /\ judge_pairs # <<>>
    /\ ~judge_client
    /\ judge_pc' = "exit_1"
    /\ UNCHANGED <<judge_idx, all_results, failed_count, judged, results_file, stats_file>>
    /\ JudgeFrame

\* the pairs are grouped, the judge is there: all_results = [], failed_count = 0
StartComparisons ==
    /\ judge_pc = "pairs_created"
    /\ judge_pairs # <<>>
    /\ judge_client
    /\ all_results' = <<>>
    /\ failed_count' = 0
    /\ judge_idx' = 0
    /\ judge_pc' = "loop"
    /\ UNCHANGED <<judged, results_file, stats_file>>
    /\ JudgeFrame

\* one iteration of the inner loop: compare_accounts returns a result, which
\* is appended, or None, which is counted
ComparePair ==
    /\ judge_pc = "loop"
    /\ judge_idx < Len(ProcessingOrder(judge_pairs))
    /\ LET pair == ProcessingOrder(judge_pairs)[judge_idx + 1]
       IN  /\ judged' = Append(judged, pair)
           /\ \/ /\ all_results' = Append(all_results, ResultDict(pair))
                 /\ UNCHANGED failed_count
              \/ /\ failed_count' = failed_count + 1
                 /\ UNCHANGED all_results
    /\ judge_idx' = judge_idx + 1
    /\ UNCHANGED <<results_file, stats_file, judge_pc>>
    /\ JudgeFrame

\* KeyboardInterrupt during the comparisons: nothing catches it
InterruptComparisons ==
    /\ judge_pc = "loop"
    /\ judge_pc' = "interrupted"
    /\ UNCHANGED <<judge_idx, all_results, failed_count, judged, results_file, stats_file>>
    /\ JudgeFrame

\* the loops are over: the metrics are calculated, then save_results writes
\* judge_comparisons.json
SaveJudgeResults ==
    /\ judge_pc = "loop"
    /\ judge_idx >= Len(ProcessingOrder(judge_pairs))
    /\ results_file' = File("list", all_results)
    /\ judge_pc' = "results_saved"
    /\ UNCHANGED <<judge_idx, all_results, failed_count, judged, stats_file>>
    /\ JudgeFrame

\* save_statistics writes statistical_validation.json
SaveStatistics ==
    /\ judge_pc = "results_saved"
    /\ stats_file' = File("metrics", Metrics(all_results))
    /\ judge_pc' = "returned"
    /\ UNCHANGED <<judge_idx, all_results, failed_count, judged, results_file>>
    /\ JudgeFrame

JudgeNext ==
    \/ NoPairs \/ JudgeUnavailable \/ StartComparisons \/ ComparePair
    \/ InterruptComparisons \/ SaveJudgeResults \/ SaveStatistics

SpecJudge == JudgeInit /\ [][JudgeNext]_vars

\* the pairs of a list, as a set
PairSet(ps) == {ps[i] : i \in 1..Len(ps)}

\* C29: at every moment len(all_results) + failed_count is the number of
\* pairs compared so far and no pair has been compared twice; once the loops
\* are over every pair created has been compared, once; and neither output
\* file exists before that: judge_comparisons.json, once written, holds
\* all_results with every pair accounted for.
C29_EveryPairOnce ==
    /\ Len(all_results) + failed_count = Len(judged)
    /\ \A i, j \in 1..Len(judged) : i # j => judged[i] # judged[j]
    /\ PairSet(judged) \subseteq PairSet(judge_pairs)
    /\ \A i \in 1..Len(all_results) :
          \E j \in 1..Len(judged) : all_results[i] = ResultDict(judged[j])
    /\ judge_pc \in {"results_saved", "returned"} =>
          /\ PairSet(judged) = PairSet(judge_pairs)
          /\ Len(all_results) + failed_count = Len(judge_pairs)
          /\ results_file = File("list", all_results)
    /\ judge_pc \notin {"results_saved", "returned"} =>
          results_file.state = "absent"
    /\ judge_pc # "returned" => stats_file.state = "absent"
    /\ judge_pc = "returned" => stats_file.content.total_comparisons = Len(all_results)

\* a run over three pairs of two events, the second event's pair lying
\* between the first event's two, has returned with a failed comparison and
\* two results
C29_Witness ==
    /\ judge_pc = "returned"
    /\ Len(judge_pairs) = 3
    /\ judge_pairs[1].event_id = judge_pairs[3].event_id
    /\ judge_pairs[1].event_id # judge_pairs[2].event_id
    /\ failed_count = 1
    /\ Len(all_results) = 2

(***************************************************************************)
(* ValidationJudge.compare_accounts beside LLMJudge.compare_accounts: one  *)
(* call of each, on the same client; the k-th API call of either gets the  *)
(* k-th outcome of one sequence of outcomes, whose errors are recorded in  *)
(* errors.  The variables of the retry loop hold the LLMJudge call, the    *)
(* validation_ variables the ValidationJudge call.                         *)
(***************************************************************************)
\* 'rate_limit' in error_str.lower() or '429' in error_str
ValidationIsRateLimit(e) == e.rate_limit_us \/ e.has_429

\* wait_time = retry_delay * (2 ** attempt)
ValidationWaitTime(e, att) == retry_delay * Pow2(att)

\* what the except block of the override does with error e on attempt att
ValidationHandler(e, att) ==
    IF ValidationIsRateLimit(e)
    THEN IF att < max_retries - 1 THEN "sleep_and_continue" ELSE "return_none"
    ELSE "return_none"

JudgesInit ==
    /\ caller = "compare_accounts"
    /\ client \in BOOLEAN
    /\ attempt = 0 /\ retry_pc = "start" /\ api_calls = 0 /\ sleeps = <<>>
    /\ errors = <<>> /\ ret = "none"
    /\ validation_attempt = 0 /\ validation_pc = "start" /\ validation_api_calls = 0
    /\ validation_sleeps = <<>> /\ validation_ret = "none"
    /\ ChunkerIdle /\ FilterIdle /\ StatIdle /\ PoolIdle /\ MainIdle /\ ComparatorIdle
    /\ ExperimentIdle /\ CombineIdle /\ FetchIdle /\ JudgeIdle /\ SequentialIdle

JudgesFrame ==
    UNCHANGED <<caller, client, chunkerVars, filterVars, statVars, poolVars, mainVars,
                comparatorVars, experimentVars, combineVars, fetchVars, judgeVars,
                sequentialVars>>

\* if not self.client: return None, in both
JudgesClientMissing ==
    /\ retry_pc = "start" /\ validation_pc = "start"
    /\ ~client
    /\ ret' = "None" /\ retry_pc' = "done"
    /\ validation_ret' = "None" /\ validation_pc' = "done"
    /\ UNCHANGED <<attempt, api_calls, sleeps, errors, validation_attempt,
                   validation_api_calls, validation_sleeps>>
    /\ JudgesFrame

\* the prompts are built and the loops entered
JudgesEnterLoop ==
    /\ retry_pc = "start" /\ validation_pc = "start"
    /\ client
    /\ attempt' = 0 /\ retry_pc' = "try"
    /\ validation_attempt' = 0 /\ validation_pc' = "try"
    /\ UNCHANGED <<api_calls, sleeps, errors, ret, validation_api_calls,
                   validation_sleeps, validation_ret>>
    /\ JudgesFrame

\* the next outcome is a result: every call still in its loop returns it
JudgesApiReturns ==
    /\ retry_pc = "try" \/ validation_pc = "try"
    /\ IF retry_pc = "try"
       THEN api_calls' = api_calls + 1 /\ ret' = "result" /\ retry_pc' = "done"
       ELSE UNCHANGED <<api_calls, ret, retry_pc>>
    /\ IF validation_pc = "try"
       THEN /\ validation_api_calls' = validation_api_calls + 1
            /\ validation_ret' = "result"
            /\ validation_pc' = "done"
       ELSE UNCHANGED <<validation_api_calls, validation_ret, validation_pc>>
    /\ UNCHANGED <<attempt, sleeps, errors, validation_attempt, validation_sleeps>>
    /\ JudgesFrame

\* the next outcome is error e: every call still in its loop runs its own
\* except block on it
JudgesApiRaises ==
    /\ retry_pc = "try" \/ validation_pc = "try"
    /\ \E e \in Errors :
        /\ errors' = Append(errors, e)
        /\ IF retry_pc # "try"
           THEN UNCHANGED <<api_calls, sleeps, attempt, retry_pc, ret>>
           ELSE /\ api_calls' = api_calls + 1
                /\ IF Handler(e, attempt) = "sleep_and_continue"
                   THEN /\ sleeps' = Append(sleeps, WaitTime(e, attempt))
                        /\ attempt' = attempt + 1
                        /\ UNCHANGED <<retry_pc, ret>>
                   ELSE /\ ret' = "None"
                        /\ retry_pc' = "done"
                        /\ UNCHANGED <<sleeps, attempt>>
        /\ IF validation_pc # "try"
           THEN UNCHANGED validationVars
           ELSE /\ validation_api_calls' = validation_api_calls + 1
                /\ IF ValidationHandler(e, validation_attempt) = "sleep_and_continue"
                   THEN /\ validation_sleeps' =
                              Append(validation_sleeps, ValidationWaitTime(e, validation_attempt))
                        /\ validation_attempt' = validation_attempt + 1
                        /\ UNCHANGED <<validation_pc, validation_ret>>
                   ELSE /\ validation_ret' = "None"
                        /\ validation_pc' = "done"
                        /\ UNCHANGED <<validation_sleeps, validation_attempt>>
    /\ JudgesFrame

JudgesNext == JudgesClientMissing \/ JudgesEnterLoop \/ JudgesApiReturns \/ JudgesApiRaises

SpecJudges == JudgesInit /\ [][JudgesNext]_vars

\* C24: on one sequence of API outcomes the two methods are at the same
\* attempt at every moment and, when both have returned, have made the same
\* number of API calls, slept the same times and returned the same.
C24_SameRetryBehaviour ==
    /\ retry_pc = validation_pc
    /\ attempt = validation_attempt
    /\ api_calls = validation_api_calls
    /\ sleeps = validation_sleeps
    /\ ret = validation_ret

(***************************************************************************)
(* extract_from_document beside extract_from_document_parallel: after the  *)
(* parallel call has returned, the sequential method is run on the same    *)
(* relevant chunks, its call of extract_event_info for chunk i ending as   *)
(* the parallel call's did (futures[i].outcome).  A result is written as   *)
(* the number of its chunk in relevant_chunks.                             *)
(***************************************************************************)
\* the per-chunk outcomes of the parallel call
ChunkOutcomes == [i \in 1..total_chunks |-> futures[i].outcome]

\* the for loop over enumerate(relevant_chunks, 1), from chunk idx on
RECURSIVE SequentialLoop(_, _, _)
SequentialLoop(outcomes, idx, res) ==
    IF idx > Len(outcomes) THEN res
    ELSE SequentialLoop(outcomes, idx + 1,
                        IF outcomes[idx] = "claims" THEN Append(res, idx) ELSE res)

extract_from_document(outcomes) ==
    IF Len(outcomes) = 0 THEN <<>> ELSE SequentialLoop(outcomes, 1, <<>>)

\* one call of extract_from_document
ExtractFromDocument ==
    /\ pool_pc = "returned"
    /\ sequential_pc = "idle"
    /\ sequential_ret' = extract_from_document(ChunkOutcomes)
    /\ sequential_pc' = "returned"
    /\ UNCHANGED <<chunkerVars, filterVars, statVars, retryVars, poolVars, mainVars,
                   comparatorVars, experimentVars, combineVars, fetchVars, judgeVars,
                   validationVars>>

ExtractorsNext == PoolNext \/ ExtractFromDocument

SpecExtractors == PoolInit /\ [][ExtractorsNext]_vars

\* how often x occurs in seq
Occurrences(seq, x) == Cardinality({a \in 1..Len(seq) : seq[a] = x})

\* C25: a chunk is submitted from the pending state only and never becomes
\* pending again, and at the return of the parallel call every chunk has
\* been submitted and collected; when both methods have returned, each chunk
\* with claims occurs once in either result and no other chunk occurs in
\* either; the parallel result is in batch order.
C25_SameResultsUpToOrder ==
    /\ [](/\ pool_pc = "returned" => InState("collected") = 1..total_chunks
          /\ sequential_pc = "returned" =>
                /\ \A i \in 1..total_chunks :
                      /\ Occurrences(pool_ret, i) = Occurrences(sequential_ret, i)
                      /\ Occurrences(pool_ret, i) =
                            (IF futures[i].outcome = "claims" THEN 1 ELSE 0)
                /\ Len(pool_ret) = Len(sequential_ret)
                /\ \A a, b \in 1..Len(pool_ret) :
                      a < b => BatchOf(pool_ret[a]) <= BatchOf(pool_ret[b])
                /\ \A a, b \in 1..Len(sequential_ret) :
                      a < b => sequential_ret[a] < sequential_ret[b])
    /\ [][\A i \in 1..total_chunks :
            /\ futures'[i].state = "pending" => futures[i].state = "pending"
            /\ (futures'[i].state = "queued" /\ futures[i].state # "queued") =>
                  /\ futures[i].state = "pending"
                  /\ work_queue' = Append(work_queue, i)]_vars

\* both methods have returned on two batches, and the parallel result has
\* two chunks of one batch in the other order than the sequential result
C25_Witness ==
    /\ sequential_pc = "returned"
    /\ Len(pauses) >= 1
    /\ Len(pool_ret) >= 3
    /\ pool_ret # sequential_ret
    /\ \E i \in 1..total_chunks : futures[i].outcome # "claims"

====
